---- MODULE Spec2Model ----
(***************************************************************************)
(* Emergency Coordination Engine of rakshanet.                             *)
(*                                                                         *)
(*  - the SOS activation state machine (SOSButton.tsx and the SOS state    *)
(*    of EmergencyContext.tsx): hold, rapid taps, confirmation countdown;  *)
(*  - helper discovery (findNearbyUsersWithExpansion);                     *)
(*  - the store (Firestore collections emergencies, chats, messages) and   *)
(*    the asynchronous operations of every client on it: triggerEmergency, *)
(*    resolveEmergency, joinEmergencyChat, sendChatMessage,                *)
(*    sendLocationMessage, the expiry timer and the snapshot listeners.    *)
(*                                                                         *)
(* Every await of the source is a separate step of the call it belongs to, *)
(* so that calls of one client and of several clients interleave at the    *)
(* places where the program can be interleaved.                            *)
(***************************************************************************)
EXTENDS Integers, Sequences, FiniteSets, TLC

(***************************************************************************)
(* Program constants                                                       *)
(***************************************************************************)
\* SOSButton.tsx:25, hold duration in ms
HOLD_DURATION == 3000
\* SOSButton.tsx:26, progress sampling period in ms
PROGRESS_INTERVAL == 50
\* EmergencyContext.tsx:231 and :602, start value of the confirmation countdown
CONFIRMATION_SECONDS == 5
\* EmergencyContext.tsx:1007, taps that complete the rapid-tap path
RAPID_TAPS == 3
\* EmergencyContext.tsx:166, first search radius in km
MIN_SEARCH_RADIUS == 5
\* EmergencyContext.tsx:154, last search radius in km
MAX_SEARCH_RADIUS == 50
\* EmergencyContext.tsx:155, step of the search radius in km
RADIUS_INCREMENT == 5
\* EmergencyContext.tsx:142-144, R * PI / 180: km of arc in one degree
KM_PER_DEGREE == 111

(***************************************************************************)
(* Bounds of the model                                                     *)
(***************************************************************************)
\* documents of the users collection besides the caller's own
MaxHelpers == 2
\* calls of triggerEmergency, resolveEmergency, joinEmergencyChat and the two
\* send handlers, over all devices
MaxCalls == 4
\* handlers in flight at a time
MaxInFlight == 2
\* emergencies the victim creates
MaxEmergencies == 2
\* store operations that fail
MaxFailures == 1

Min(a, b) == IF a <= b THEN a ELSE b

(***************************************************************************)
(* State                                                                   *)
(***************************************************************************)
VARIABLES
  \* ---- one device: React state of EmergencyProvider (SOS part) ----
  user,                 \* TRUE when user and userProfile are loaded
  location,             \* TRUE when the cached location state is not null
  isLoadingLocation,
  sosHoldProgress,      \* progress state, in ms of hold (100% = HOLD_DURATION)
  showConfirmation,
  confirmationTimeout,
  rapidTapCount,
  rapidTapTimeoutRef,   \* TRUE while the rapid-tap window timer is pending
  \* ---- refs of SOSButton ----
  holdTimerRef,         \* TRUE while the hold timer is pending
  progressIntervalRef,  \* TRUE while the progress interval is running
  isHoldingRef,
  progressRef,          \* kept while the interval runs, its only reader
  \* ---- the user's finger and the observations the properties are about ----
  pressed,              \* the button is held down
  heldMs,               \* time the current press has lasted, capped at HOLD_DURATION
  tapsThisPress,        \* registerRapidTap calls since the last press began
  expiredAt,            \* rapidTapCount the last window expiry found, -1 before any
  lastOp,               \* name of the last handler that ran
  rel,                  \* what the last step saw, when it was endHold
  lastTrigger,          \* the triggerEmergency call of the last step, if any
  \* ---- one call of findNearbyUsersWithExpansion ----
  usersSnapshot,        \* the users collection read by getDocs: doc id -> data
  origin,               \* lat of the search origin
  meridian,             \* lng of the origin and of every user with a location
  discResult,           \* the value returned, NoResult before the call
  \* ---- the store: collections of documents, numbered from 1 ----
  emergencies,          \* emergencies: [victimId, status, chatId (0: none),
                        \*               lat, lng]
  chats,                \* chats: [emergencyId, participants, activeStatus]
  messages,             \* messages, in the order of their creation
  helperAlerts,         \* helperAlerts documents, in the order of creation
  \* ---- the handlers in flight and those that have returned ----
  calls,                \* the calls in flight, in the order they were made
  returned,             \* the calls that have returned, with their results
  ncalls,               \* handler calls made so far
  failures,             \* store operations that have failed so far
  \* ---- React state of EmergencyProvider (session part) ----
  currentEmergency,     \* of the victim's device: an emergency id or 0 (null)
  isEmergencyActive,    \* of the victim's device
  currentChat,          \* of every device: the copy of a chat, or NoChat
  chatLoads,            \* getDoc(chat) requests of that listener in flight
  chatExpiryTimeoutRef, \* the timer the ref holds (by emergency), 0: none
  timers                \* expiry timers that are set and have not fired

sosVars == <<user, location, isLoadingLocation, sosHoldProgress,
             showConfirmation, confirmationTimeout, rapidTapCount,
             rapidTapTimeoutRef, holdTimerRef, progressIntervalRef,
             isHoldingRef, progressRef, pressed, heldMs, tapsThisPress,
             expiredAt, lastOp, rel, lastTrigger>>

discVars == <<usersSnapshot, origin, meridian, discResult>>

storeDocs == <<emergencies, chats, messages, helperAlerts>>

clientState == <<currentEmergency, isEmergencyActive, currentChat, chatLoads,
                 chatExpiryTimeoutRef, timers>>

callVars == <<calls, returned, ncalls>>

storeVars == <<storeDocs, callVars, failures, clientState>>

vars == <<sosVars, discVars, storeVars>>

\* What the handlers of each part leave alone
outsideSOS == <<discVars, storeVars>>
outsideDisc == <<sosVars, storeVars>>
outsideStore == <<sosVars, discVars>>
\* The SOS state but for the cached location and its loading flag
outsideLocation == <<user, sosHoldProgress, showConfirmation,
                     confirmationTimeout, rapidTapCount, rapidTapTimeoutRef,
                     holdTimerRef, progressIntervalRef, isHoldingRef,
                     progressRef, pressed, heldMs, tapsThisPress, expiredAt,
                     lastOp, rel, lastTrigger>>

NoResult == [users |-> <<>>, radius |-> -1]

NoTrigger == [via |-> "none", reason |-> "none", dispatched |-> FALSE]
NoRel == [progress |-> 0, count |-> 0, window |-> FALSE, tapped |-> FALSE]

(***************************************************************************)
(* Helper discovery                                                        *)
(*                                                                         *)
(* lat is given in km of arc from the equator and lng in degrees.  Between *)
(* two points of one meridian calculateDistance, R * c with c = |dLat|     *)
(* when dLng = 0, is the difference of the two lat values; between points  *)
(* of different meridians, all of them near the equator here, it is taken  *)
(* as that difference plus the arc between the meridians, which is beyond  *)
(* every search radius.                                                    *)
(***************************************************************************)
\* The caller's own document id (currentUserId); the helpers are 1..MaxHelpers.
Caller == 0
DocIds == 0..MaxHelpers

\* lat values of the documents: on the equator, and at distances around the
\* first radius, inside the sequence, and around the last radius.
LatChoices == {0, 5, 7, 20, 52, 53}
OriginChoices == {0, 2}
\* lng of the search: the Greenwich meridian or 77 E.
MeridianChoices == {0, 77}

\* JavaScript truthiness of a numeric field: !x holds of a field that is
\* missing (present = FALSE) and of 0.
Truthy(present, x) == present /\ x # 0

Abs(x) == IF x < 0 THEN -x ELSE x

\* calculateDistance, in km
CalculateDistance(lat1, lng1, lat2, lng2) ==
  Abs(lat2 - lat1) + KM_PER_DEGREE * Abs(lng2 - lng1)

\* userData.isOnline === true || lastActive > fiveMinutesAgo
IsOnline(userData) == userData.isOnline \/ userData.recent

\* The documents the forEach of one radius pushes, as a set of doc ids
NearbyIds(snap, lat, lng, currentUserId, radius) ==
  {id \in DOMAIN snap :
     /\ id # currentUserId
     /\ Truthy(snap[id].located, snap[id].lat)
     /\ Truthy(snap[id].located, snap[id].lng)
     /\ CalculateDistance(lat, lng, snap[id].lat, snap[id].lng) <= radius}

Helper(snap, lat, lng, id) ==
  [id |-> id,
   distance |-> CalculateDistance(lat, lng, snap[id].lat, snap[id].lng),
   isOnline |-> IsOnline(snap[id])]

\* The comparator of nearbyUsers.sort: online first, then distance
CompareMut(a, b) == a.distance - b.distance

Compare(a, b) ==
  IF a.isOnline # b.isOnline
    THEN (IF a.isOnline THEN -1 ELSE 1)
    ELSE a.distance - b.distance

\* Array.prototype.sort (stable): x, which stood before every element of the
\* sorted sequence sq in the array, goes before the first element it does not
\* follow
RECURSIVE Insert(_, _)
Insert(sq, x) ==
  IF sq = <<>> THEN <<x>>
  ELSE IF Compare(x, Head(sq)) <= 0 THEN <<x>> \o sq
  ELSE <<Head(sq)>> \o Insert(Tail(sq), x)

RECURSIVE SortFrom(_, _, _, _, _)
SortFrom(snap, lat, lng, ids, id) ==
  IF id > MaxHelpers THEN <<>>
  ELSE LET rest == SortFrom(snap, lat, lng, ids, id + 1)
       IN IF id \in ids
            THEN Insert(rest, Helper(snap, lat, lng, id))
            ELSE rest

\* The documents of one radius in forEach order (by doc id), then sorted
NearbyUsers(snap, lat, lng, currentUserId, radius) ==
  LET ids == NearbyIds(snap, lat, lng, currentUserId, radius)
  IN SortFrom(snap, lat, lng, ids, 0)

\* The for loop over the radius
ExpandMut(snap, lat, lng, currentUserId, radius) ==
  [users |-> NearbyUsers(snap, lat, lng, currentUserId, radius),
   radius |-> radius]

RECURSIVE Expand(_, _, _, _, _)
Expand(snap, lat, lng, currentUserId, radius) ==
  IF radius > MAX_SEARCH_RADIUS
    THEN [users |-> <<>>, radius |-> MAX_SEARCH_RADIUS]
    ELSE IF NearbyIds(snap, lat, lng, currentUserId, radius) # {}
      THEN [users |-> NearbyUsers(snap, lat, lng, currentUserId, radius),
            radius |-> radius]
      ELSE Expand(snap, lat, lng, currentUserId, radius + RADIUS_INCREMENT)

FindNearbyUsersWithExpansion(snap, lat, lng, currentUserId) ==
  Expand(snap, lat, lng, currentUserId, MIN_SEARCH_RADIUS)

\* A user document: updateUserLocation writes lat and lng together, so a
\* document has both (located) or neither (then the fields read as 0 here).
UserDocs(lng) ==
  [located : {TRUE}, lat : LatChoices, lng : {lng},
   isOnline : BOOLEAN, recent : BOOLEAN]
    \cup
  [located : {FALSE}, lat : {0}, lng : {0},
   isOnline : BOOLEAN, recent : BOOLEAN]

(***************************************************************************)
(* Emergencies, sessions and messages in the store                         *)
(*                                                                         *)
(* One victim and the helpers, each on a device of their own.  Every await *)
(* of a handler is a step of its own: the store operation takes effect and *)
(* the handler runs on to its next await.  A call in flight is a record of *)
(* calls; pc names the store operation it is waiting for.  A call that has *)
(* returned leaves a record in returned.                                   *)
(***************************************************************************)
Victim == "victim"
\* uid of the users whose documents are 1, 2, ... in the users collection
HelperNames == <<"helperA", "helperB", "helperC">>
HelperIds == {HelperNames[id] : id \in 1..MaxHelpers}
Uids == {Victim} \cup HelperIds
\* uid of the user of a document of the users collection
Uid(id) == IF id = Caller THEN Victim ELSE HelperNames[id]

\* Where the victim's device is when it has a position, and what
\* triggerEmergency uses when it has none: currentLocation?.latitude || 0
VictimPosition == [lat |-> 2, lng |-> 77]
ZeroLocation == [lat |-> 0, lng |-> 0]
\* senderId of the messages the handlers post themselves
System == "system"

\* currentChat = null
NoChat == [id |-> 0, activeStatus |-> FALSE]

\* A call that has just been made.  e and chat are the documents of its
\* closure, seen and active what its getDoc read, lat and lng the location
\* triggerEmergency works with, found, radius and todo the helpers and the
\* radius of discovery and the helpers still to alert, failed the helpers
\* whose alert write has failed, notes what held when the call was made and
\* what it has told the user.
NewCall(op, client, pc) ==
  [op |-> op, client |-> client, pc |-> pc, e |-> 0, chat |-> 0,
   seen |-> {}, active |-> FALSE, lat |-> ZeroLocation.lat,
   lng |-> ZeroLocation.lng, found |-> {}, radius |-> 0, todo |-> {},
   failed |-> {}, notes |-> {}]

\* What is kept of a call that has returned: pc is the operation it ended at
Done(call, result) ==
  [op |-> call.op, client |-> call.client, pc |-> call.pc, e |-> call.e,
   chat |-> call.chat, lat |-> call.lat, lng |-> call.lng,
   found |-> call.found, radius |-> call.radius, failed |-> call.failed,
   notes |-> call.notes, result |-> result]

\* calls without its i-th record
Without(i) ==
  [j \in 1..(Len(calls) - 1) |-> IF j < i THEN calls[j] ELSE calls[j + 1]]

\* A handler is called and runs to its first await
Called(call) ==
  /\ ncalls < MaxCalls
  /\ Len(calls) < MaxInFlight
  /\ ncalls' = ncalls + 1
  /\ calls' = Append(calls, call)
  /\ UNCHANGED returned

\* A handler is called and returns before any await
CalledAndReturned(call, result) ==
  /\ ncalls < MaxCalls
  /\ ncalls' = ncalls + 1
  /\ returned' = returned \cup {Done(call, result)}
  /\ UNCHANGED calls

\* The i-th call runs on to its next await, as the record call
Goes(i, call) ==
  /\ calls' = [calls EXCEPT ![i] = call]
  /\ UNCHANGED <<returned, ncalls>>

\* The i-th call returns
Returns(i, result) ==
  /\ calls' = Without(i)
  /\ returned' = returned \cup {Done(calls[i], result)}
  /\ UNCHANGED ncalls

\* The calls waiting for operation pc of handler op
Waiting(op, pc) == {i \in DOMAIN calls : calls[i].op = op /\ calls[i].pc = pc}

\* updateDoc(chatRef, {participants: arrayUnion(...uids)}): the store adds the
\* uids to the participants it holds, whatever the caller has read (seen).
ArrayUnionMut(stored, seen, uids) == seen \cup uids
ArrayUnionReplaceMut(stored, seen, uids) == uids
ArrayUnion(stored, seen, uids) == stored \cup uids

MessageMut(chatId, senderId, text) ==
  [chatId |-> chatId, senderId |-> System, text |-> text]

Message(chatId, senderId, text) ==
  [chatId |-> chatId, senderId |-> senderId, text |-> text]

StoreInit ==
  /\ emergencies = <<>>
  /\ chats = <<>>
  /\ messages = <<>>
  /\ helperAlerts = <<>>
  /\ calls = <<>>
  /\ returned = {}
  /\ ncalls = 0
  /\ failures = 0
  /\ currentEmergency = 0
  /\ isEmergencyActive = FALSE
  /\ currentChat = [u \in Uids |-> NoChat]
  /\ chatLoads = {}
  /\ chatExpiryTimeoutRef = 0
  /\ timers = {}

\* ---- the subscription to the user's active emergency --------------------

\* The documents of the query victimId == uid, status in [waiting, active]
ActiveEmergencies(docs) ==
  {[id |-> e, status |-> docs[e].status, chatId |-> docs[e].chatId] :
     e \in {x \in DOMAIN docs :
              /\ docs[x].victimId = Victim
              /\ docs[x].status \in {"waiting", "active"}}}

\* docs.sort by timestamp, newest first, [0]: documents are numbered in the
\* order of their creation
MostRecentMut(docs) == CHOOSE d \in docs : \A o \in docs : d.id <= o.id

MostRecent(docs) == CHOOSE d \in docs : \A o \in docs : o.id <= d.id

\* The callback of onSnapshot.  Every write to emergencies is made by the
\* victim's own device, and the listener of a device runs on its own writes
\* before the write's promise resolves: the callback is run here within the
\* step of the write that changes the documents of the query to docs, before
\* the handler goes on.  It gives currentEmergency, isEmergencyActive and the
\* getDoc(chat) requests in flight.
OnSnapshot(docs) ==
  IF ActiveEmergencies(docs) = ActiveEmergencies(emergencies)
    THEN [currentEmergency |-> currentEmergency,
          isEmergencyActive |-> isEmergencyActive, chatLoads |-> chatLoads]
    ELSE IF ActiveEmergencies(docs) # {}
      THEN LET data == MostRecent(ActiveEmergencies(docs))
           IN [currentEmergency |-> data.id, isEmergencyActive |-> TRUE,
               chatLoads |-> IF data.chatId # 0
                               THEN chatLoads \cup {data.chatId}
                               ELSE chatLoads]
      ELSE [currentEmergency |-> 0, isEmergencyActive |-> FALSE,
            chatLoads |-> chatLoads]

\* A write to emergencies that leaves docs, with the listener's callback
WriteEmergencies(docs) ==
  /\ emergencies' = docs
  /\ currentEmergency' = OnSnapshot(docs).currentEmergency
  /\ isEmergencyActive' = OnSnapshot(docs).isEmergencyActive
  /\ chatLoads' = OnSnapshot(docs).chatLoads

\* getDoc(chat).then(chatDoc => setCurrentChat(...)) of the callback
ChatLoaded ==
  /\ \E chatId \in chatLoads :
       /\ chatLoads' = chatLoads \ {chatId}
       /\ currentChat' = [currentChat EXCEPT ![Victim] =
            [id |-> chatId, activeStatus |-> chats[chatId].activeStatus]]
  /\ UNCHANGED <<storeDocs, callVars, currentEmergency, isEmergencyActive,
                 chatExpiryTimeoutRef, timers, failures>>
  /\ UNCHANGED outsideStore

\* ---- triggerEmergency -------------------------------------------------

\* if (!user || !userProfile) { toast('Authentication Required'); return; }
NotSignedInMut(u) == FALSE

NotSignedIn(u) == ~u

\* The triggerEmergency calls that have not created their emergency yet
Creating == {i \in DOMAIN calls : calls[i].op = "trigger" /\ calls[i].e = 0}

\* triggerEmergency is called (by the confirmation popup or the countdown).
\* EmergencyActiveScreen covers the SOS button while isEmergencyActive and
\* currentEmergency are set, so the call is made while they are not.  Without
\* a user it returns at once; with the cached location it goes to the first
\* store write; without one it awaits updateLocation(), which sets
\* isLoadingLocation.
TriggerEmergency ==
  /\ Len(emergencies) + Cardinality(Creating) < MaxEmergencies
  /\ ~(isEmergencyActive /\ currentEmergency # 0)
  /\ IF NotSignedIn(user)
       THEN /\ CalledAndReturned(NewCall("trigger", Victim, "signIn"),
                                 "unauthenticated")
            /\ UNCHANGED isLoadingLocation
       ELSE IF location
         THEN /\ Called([NewCall("trigger", Victim, "addEmergency") EXCEPT
                           !.lat = VictimPosition.lat,
                           !.lng = VictimPosition.lng])
              /\ UNCHANGED isLoadingLocation
         ELSE /\ Called(NewCall("trigger", Victim, "updateLocation"))
              /\ isLoadingLocation' = TRUE
  /\ UNCHANGED <<storeDocs, clientState, failures, location>>
  /\ UNCHANGED <<outsideLocation, discVars>>

\* What the call goes on with when updateLocation() has rejected: the catch
\* block warns the user ('Emergency triggered without precise location') and
\* the handler goes on with the zero location.
LocationFailedMut(call) ==
  [call EXCEPT !.notes = @ \cup {"warned"}, !.lat = VictimPosition.lat,
               !.pc = "addEmergency"]

LocationFailed(call) ==
  [call EXCEPT !.notes = @ \cup {"warned"}, !.pc = "addEmergency"]

\* await updateLocation() of triggerEmergency is answered: with a position,
\* which becomes the cached location, or with an error
TriggerLocation ==
  /\ \E i \in Waiting("trigger", "updateLocation"), ok \in BOOLEAN :
       /\ location' = (location \/ ok)
       /\ Goes(i, IF ok
                    THEN [calls[i] EXCEPT !.lat = VictimPosition.lat,
                                          !.lng = VictimPosition.lng,
                                          !.pc = "addEmergency"]
                    ELSE LocationFailed(calls[i]))
  /\ isLoadingLocation' = FALSE
  /\ UNCHANGED <<storeDocs, clientState, failures>>
  /\ UNCHANGED <<outsideLocation, discVars>>

\* emergencyData of triggerEmergency
EmergencyDataMut(uid, lat, lng) ==
  [victimId |-> uid, status |-> "active", chatId |-> 0, lat |-> lat,
   lng |-> lng]

EmergencyData(uid, lat, lng) ==
  [victimId |-> uid, status |-> "waiting", chatId |-> 0, lat |-> lat,
   lng |-> lng]

\* 1. addDoc(emergencies, {status: 'waiting'})
AddEmergency ==
  /\ \E i \in Waiting("trigger", "addEmergency") :
       /\ WriteEmergencies(Append(emergencies,
            EmergencyData(calls[i].client, calls[i].lat, calls[i].lng)))
       /\ Goes(i, [calls[i] EXCEPT !.e = Len(emergencies) + 1, !.pc = "addChat"])
  /\ UNCHANGED <<chats, messages, helperAlerts, currentChat,
                 chatExpiryTimeoutRef, timers, failures>>
  /\ UNCHANGED outsideStore

\* chatData of triggerEmergency
ChatDataMut(emergencyId, uid) ==
  [emergencyId |-> emergencyId, participants |-> {}, activeStatus |-> TRUE]

ChatData(emergencyId, uid) ==
  [emergencyId |-> emergencyId, participants |-> {uid}, activeStatus |-> TRUE]

\* 2. addDoc(chats, {participants: [uid], activeStatus: true})
AddChat ==
  /\ \E i \in Waiting("trigger", "addChat") :
       /\ chats' = Append(chats, ChatData(calls[i].e, calls[i].client))
       /\ Goes(i, [calls[i] EXCEPT !.chat = Len(chats) + 1, !.pc = "linkChat"])
  /\ UNCHANGED <<emergencies, messages, helperAlerts, clientState, failures>>
  /\ UNCHANGED outsideStore

\* updateDoc(emergencyRef, {chatId}), then setCurrentChat with the chatData the
\* handler has built
LinkChat ==
  /\ \E i \in Waiting("trigger", "linkChat") :
       /\ WriteEmergencies([emergencies EXCEPT ![calls[i].e].chatId = calls[i].chat])
       /\ currentChat' = [currentChat EXCEPT ![calls[i].client] =
                            [id |-> calls[i].chat, activeStatus |-> TRUE]]
       /\ Goes(i, [calls[i] EXCEPT !.pc = "addSystemMessage"])
  /\ UNCHANGED <<chats, messages, helperAlerts, chatExpiryTimeoutRef, timers,
                 failures>>
  /\ UNCHANGED outsideStore

\* 3. addDoc(messages, 'EMERGENCY ACTIVATED')
AddSystemMessage ==
  /\ \E i \in Waiting("trigger", "addSystemMessage") :
       /\ messages' = Append(messages, Message(calls[i].chat, System, "activated"))
       /\ Goes(i, [calls[i] EXCEPT !.pc = "findNearbyUsers"])
  /\ UNCHANGED <<emergencies, chats, helperAlerts, clientState, failures>>
  /\ UNCHANGED outsideStore

\* The documents of the other users at the moment of a scan: at 3 km from
\* the victim's position, beyond the last radius from it, or without a
\* stored location.
ScanDocs ==
  {[located |-> TRUE, lat |-> 5, lng |-> VictimPosition.lng,
    isOnline |-> TRUE, recent |-> FALSE],
   [located |-> TRUE, lat |-> 53, lng |-> VictimPosition.lng,
    isOnline |-> TRUE, recent |-> FALSE],
   [located |-> FALSE, lat |-> 0, lng |-> 0,
    isOnline |-> TRUE, recent |-> FALSE]}

\* The users collection as getDocs can return it
ScanChoices == [DocIds -> ScanDocs]

\* The users of snap, other than the caller, that have a stored location
\* within radius km of (lat, lng)
KnownWithin(snap, lat, lng, currentUserId, radius) ==
  {id \in DOMAIN snap :
     /\ id # currentUserId
     /\ snap[id].located
     /\ CalculateDistance(lat, lng, snap[id].lat, snap[id].lng) <= radius}

\* if (nearbyUsers.length > 0): the fan-out of step 5, or step 6 at once
AfterScanMut(nearbyUsers) == "setActive"

AfterScan(nearbyUsers) ==
  IF nearbyUsers # {} THEN "addParticipants" ELSE "setActive"

\* The call once findNearbyUsersWithExpansion has returned on snap: nearbyUsers
\* and foundRadius; it notes when snap held no user with a stored location
\* within the last radius.
Scanned(call, snap) ==
  LET result == FindNearbyUsersWithExpansion(snap, call.lat, call.lng, Caller)
      nearbyUsers == {Uid(result.users[k].id) : k \in DOMAIN result.users}
  IN [call EXCEPT
        !.found = nearbyUsers,
        !.todo = nearbyUsers,
        !.radius = result.radius,
        !.notes = @ \cup
          (IF KnownWithin(snap, call.lat, call.lng, Caller,
                          MAX_SEARCH_RADIUS) = {}
             THEN {"nobody"} ELSE {}),
        !.pc = AfterScan(nearbyUsers)]

\* 4. findNearbyUsersWithExpansion(lat, lng, user.uid) on the users collection
\* of that moment
FindNearbyUsers ==
  /\ \E i \in Waiting("trigger", "findNearbyUsers"), snap \in ScanChoices :
       Goes(i, Scanned(calls[i], snap))
  /\ UNCHANGED <<storeDocs, clientState, failures>>
  /\ UNCHANGED outsideStore

\* The uids the fan-out adds to the session: user.uid and helperIds, the
\* ids of the nearby users
FanOutUidsMut(uid, helperIds) == {uid}

FanOutUids(uid, helperIds) == {uid} \cup helperIds

\* 5. updateDoc(chatRef, {participants: arrayUnion(uid, ...helperIds)})
AddParticipants ==
  /\ \E i \in Waiting("trigger", "addParticipants") :
       /\ chats' = [chats EXCEPT ![calls[i].chat].participants =
            ArrayUnion(@, {calls[i].client},
                       FanOutUids(calls[i].client, calls[i].found))]
       /\ Goes(i, [calls[i] EXCEPT !.pc = "alert"])
  /\ UNCHANGED <<emergencies, messages, helperAlerts, clientState, failures>>
  /\ UNCHANGED outsideStore

\* The helper the alert loop has reached
NextHelper(call) == CHOOSE h \in call.todo : TRUE

\* The alert loop moves on from the helper it has reached
AlertLoopOnMut(call) == [call EXCEPT !.todo = {}, !.pc = "setActive"]

AlertLoopOn(call) ==
  [call EXCEPT !.todo = @ \ {NextHelper(call)},
               !.pc = IF call.todo = {NextHelper(call)} THEN "setActive" ELSE "alert"]

\* The helperAlerts document of the loop
HelperAlert(helperId, emergencyId, chatId) ==
  [helperId |-> helperId, emergencyId |-> emergencyId, chatId |-> chatId,
   status |-> "pending"]

\* The documents the loop writes for todo when no write fails
RECURSIVE AlertsOf(_, _, _)
AlertsOf(todo, emergencyId, chatId) ==
  IF todo = {} THEN <<>>
  ELSE LET h == CHOOSE x \in todo : TRUE
       IN <<HelperAlert(h, emergencyId, chatId)>>
            \o AlertsOf(todo \ {h}, emergencyId, chatId)

\* 5b. addDoc(helperAlerts, {status: 'pending'}) for one helper of the loop
AlertHelper ==
  /\ \E i \in Waiting("trigger", "alert") :
       /\ helperAlerts' = Append(helperAlerts,
            HelperAlert(NextHelper(calls[i]), calls[i].e, calls[i].chat))
       /\ Goes(i, AlertLoopOn(calls[i]))
  /\ UNCHANGED <<emergencies, chats, messages, clientState, failures>>
  /\ UNCHANGED outsideStore

\* 6. updateDoc(emergencyRef, {status: 'active'}); 7 follows when lat && lng
SetActive ==
  /\ \E i \in Waiting("trigger", "setActive") :
       /\ WriteEmergencies([emergencies EXCEPT ![calls[i].e].status = "active"])
       /\ Goes(i, [calls[i] EXCEPT !.pc =
            IF calls[i].lat # 0 /\ calls[i].lng # 0
              THEN "addLocationMessage" ELSE "setExpiresAt"])
  /\ UNCHANGED <<chats, messages, helperAlerts, currentChat,
                 chatExpiryTimeoutRef, timers, failures>>
  /\ UNCHANGED outsideStore

\* 7. addDoc(messages, 'My current location'), when lat && lng
AddLocationMessage ==
  /\ \E i \in Waiting("trigger", "addLocationMessage") :
       /\ messages' = Append(messages,
            Message(calls[i].chat, calls[i].client, "location"))
       /\ Goes(i, [calls[i] EXCEPT !.pc = "setExpiresAt"])
  /\ UNCHANGED <<emergencies, chats, helperAlerts, clientState, failures>>
  /\ UNCHANGED outsideStore

\* 8. updateDoc(chatRef, {expiresAt}), then the expiry timer is set and kept
\* in chatExpiryTimeoutRef, setIsEmergencyActive(true), and the call returns.
SetExpiresAt ==
  /\ \E i \in Waiting("trigger", "setExpiresAt") :
       /\ timers' = timers \cup {calls[i].e}
       /\ chatExpiryTimeoutRef' = calls[i].e
       /\ isEmergencyActive' = TRUE
       /\ Returns(i, "ok")
  /\ UNCHANGED <<storeDocs, currentEmergency, currentChat, chatLoads, failures>>
  /\ UNCHANGED outsideStore

\* ---- the expiry timer of triggerEmergency -------------------------------

\* The timer of emergency e fires; its callback closes over emergencyRef and
\* chatRef of the call that set it.
ExpiryFires ==
  /\ Len(calls) < MaxInFlight
  /\ \E e \in timers :
       /\ timers' = timers \ {e}
       /\ calls' = Append(calls, [NewCall("expire", Victim, "expireChat")
                                    EXCEPT !.e = e, !.chat = emergencies[e].chatId])
  /\ UNCHANGED <<storeDocs, returned, ncalls, currentEmergency, isEmergencyActive,
                 currentChat, chatLoads, chatExpiryTimeoutRef, failures>>
  /\ UNCHANGED outsideStore

\* updateDoc(chatRef, {activeStatus: false})
ExpireChat ==
  /\ \E i \in Waiting("expire", "expireChat") :
       /\ chats' = [chats EXCEPT ![calls[i].chat].activeStatus = FALSE]
       /\ Goes(i, [calls[i] EXCEPT !.pc = "expireEmergency"])
  /\ UNCHANGED <<emergencies, messages, helperAlerts, clientState, failures>>
  /\ UNCHANGED outsideStore

\* updateDoc(emergencyRef, {status: 'closed'})
ExpireEmergency ==
  /\ \E i \in Waiting("expire", "expireEmergency") :
       /\ WriteEmergencies([emergencies EXCEPT ![calls[i].e].status = "closed"])
       /\ Goes(i, [calls[i] EXCEPT !.pc = "addExpiredMessage"])
  /\ UNCHANGED <<chats, messages, helperAlerts, currentChat,
                 chatExpiryTimeoutRef, timers, failures>>
  /\ UNCHANGED outsideStore

\* addDoc(messages, 'automatically ended after 1 hour')
AddExpiredMessage ==
  /\ \E i \in Waiting("expire", "addExpiredMessage") :
       /\ messages' = Append(messages, Message(calls[i].chat, System, "expired"))
       /\ Returns(i, "ok")
  /\ UNCHANGED <<emergencies, chats, helperAlerts, clientState, failures>>
  /\ UNCHANGED outsideStore

\* ---- resolveEmergency ---------------------------------------------------

\* The triggerEmergency call that created emergency e has returned
TriggerReturned(e) == \E r \in returned : r.op = "trigger" /\ r.e = e

\* The emergencies closed by a resolveEmergency call that was made after
\* their triggerEmergency call had returned
ResolvedAfterTrigger ==
  {r.e : r \in {x \in returned :
                   x.op = "resolve" /\ x.result = "ok" /\ "triggered" \in x.notes}}

\* Every emergency of the victim has been triggered and then resolved, and no
\* triggerEmergency call is in flight
Settled ==
  /\ emergencies # <<>>
  /\ \A e \in DOMAIN emergencies : e \in ResolvedAfterTrigger
  /\ \A i \in DOMAIN calls : calls[i].op # "trigger"

\* The resolveEmergency call the victim's device makes now
ResolveCall ==
  [NewCall("resolve", Victim, "closeEmergency") EXCEPT
     !.e = currentEmergency,
     !.chat = currentChat[Victim].id,
     !.notes =
       (IF Settled THEN {"settled"} ELSE {})
       \cup (IF currentEmergency \in ResolvedAfterTrigger THEN {"again"} ELSE {})
       \cup (IF TriggerReturned(currentEmergency) THEN {"triggered"} ELSE {})]

\* if (!currentEmergency || !user) return;
NothingToResolveMut(e) == FALSE

NothingToResolve(e) == e = 0

\* resolveEmergency is called: it returns at once without currentEmergency,
\* and works on the currentEmergency and currentChat of its closure otherwise.
ResolveEmergency ==
  /\ IF NothingToResolve(currentEmergency)
       THEN CalledAndReturned(ResolveCall, "ignored")
       ELSE Called(ResolveCall)
  /\ UNCHANGED <<storeDocs, clientState, failures>>
  /\ UNCHANGED outsideStore

\* What resolveEmergency does after its last await: clearTimeout of the timer
\* in chatExpiryTimeoutRef, the local state is cleared, the call returns.
ResolveReturns(i) ==
  /\ timers' = timers \ {chatExpiryTimeoutRef}
  /\ isEmergencyActive' = FALSE
  /\ currentEmergency' = 0
  /\ currentChat' = [currentChat EXCEPT ![calls[i].client] = NoChat]
  /\ Returns(i, "ok")

\* updateDoc(emergency, {status: 'closed'}); without a currentChat the handler
\* goes on to its end, after the listener's callback.
CloseEmergency ==
  /\ \E i \in Waiting("resolve", "closeEmergency") :
       LET docs == [emergencies EXCEPT ![calls[i].e].status = "closed"]
       IN IF calls[i].chat # 0
            THEN /\ WriteEmergencies(docs)
                 /\ Goes(i, [calls[i] EXCEPT !.pc = "closeChat"])
                 /\ UNCHANGED <<timers, currentChat>>
            ELSE /\ emergencies' = docs
                 /\ chatLoads' = OnSnapshot(docs).chatLoads
                 /\ ResolveReturns(i)
  /\ UNCHANGED <<chats, messages, helperAlerts, chatExpiryTimeoutRef, failures>>
  /\ UNCHANGED outsideStore

\* What resolveEmergency writes to the chat: {activeStatus: false, closedAt}
ResolvedChatDataMut == [activeStatus |-> TRUE]

ResolvedChatData == [activeStatus |-> FALSE]

\* updateDoc(chat, {activeStatus: false})
CloseChat ==
  /\ \E i \in Waiting("resolve", "closeChat") :
       /\ chats' = [chats EXCEPT ![calls[i].chat].activeStatus =
                      ResolvedChatData.activeStatus]
       /\ Goes(i, [calls[i] EXCEPT !.pc = "addResolvedMessage"])
  /\ UNCHANGED <<emergencies, messages, helperAlerts, clientState, failures>>
  /\ UNCHANGED outsideStore

\* addDoc(messages, 'Help has been received! Emergency resolved.')
AddResolvedMessage ==
  /\ \E i \in Waiting("resolve", "addResolvedMessage") :
       /\ messages' = Append(messages, Message(calls[i].chat, System, "resolved"))
       /\ ResolveReturns(i)
  /\ UNCHANGED <<emergencies, chats, helperAlerts, chatLoads,
                 chatExpiryTimeoutRef, failures>>
  /\ UNCHANGED outsideStore

\* ---- joinEmergencyChat --------------------------------------------------

\* participants.includes(user.uid) on the chat data a getDoc has read
IncludesMut(chatData, uid) == TRUE

Includes(chatData, uid) == uid \in chatData.participants

\* A helper calls joinEmergencyChat with an alert of their list: an emergency
\* of somebody else that is waiting or active and has its chatId.
JoinEmergencyChat ==
  /\ \E h \in HelperIds, e \in DOMAIN emergencies :
       /\ emergencies[e].victimId # h
       /\ emergencies[e].status \in {"waiting", "active"}
       /\ emergencies[e].chatId # 0
       /\ Called([NewCall("join", h, "getChat") EXCEPT
                    !.e = e, !.chat = emergencies[e].chatId])
  /\ UNCHANGED <<storeDocs, clientState, failures>>
  /\ UNCHANGED outsideStore

\* setCurrentChat with the chatData read, and the call returns
JoinReturns(i, active) ==
  /\ currentChat' = [currentChat EXCEPT ![calls[i].client] =
                       [id |-> calls[i].chat, activeStatus |-> active]]
  /\ Returns(i, "ok")

\* getDoc(chatRef)
JoinGetChat ==
  /\ \E i \in Waiting("join", "getChat") :
       LET chatData == chats[calls[i].chat]
       IN IF ~Includes(chatData, calls[i].client)
            THEN /\ Goes(i, [calls[i] EXCEPT !.seen = chatData.participants,
                                             !.active = chatData.activeStatus,
                                             !.pc = "addParticipant"])
                 /\ UNCHANGED currentChat
            ELSE JoinReturns(i, chatData.activeStatus)
  /\ UNCHANGED <<storeDocs, currentEmergency, isEmergencyActive, chatLoads,
                 chatExpiryTimeoutRef, timers, failures>>
  /\ UNCHANGED outsideStore

\* updateDoc(chatRef, {participants: arrayUnion(uid)})
JoinAddParticipant ==
  /\ \E i \in Waiting("join", "addParticipant") :
       /\ chats' = [chats EXCEPT ![calls[i].chat].participants =
                      ArrayUnion(@, calls[i].seen, {calls[i].client})]
       /\ Goes(i, [calls[i] EXCEPT !.pc = "addJoinMessage"])
  /\ UNCHANGED <<emergencies, messages, helperAlerts, clientState, failures>>
  /\ UNCHANGED outsideStore

\* addDoc(messages, 'has joined to help')
AddJoinMessage ==
  /\ \E i \in Waiting("join", "addJoinMessage") :
       /\ messages' = Append(messages, Message(calls[i].chat, System, "joined"))
       /\ JoinReturns(i, calls[i].active)
  /\ UNCHANGED <<emergencies, chats, helperAlerts, currentEmergency,
                 isEmergencyActive, chatLoads, chatExpiryTimeoutRef, timers,
                 failures>>
  /\ UNCHANGED outsideStore

\* ---- updateLocation -------------------------------------------------------

\* The error codes of a position request that has failed
PositionErrors == {"PERMISSION_DENIED", "POSITION_UNAVAILABLE", "TIMEOUT"}

\* The i-th call runs on as the record call and returns
ReturnsAs(i, call, result) ==
  /\ calls' = Without(i)
  /\ returned' = returned \cup {Done(call, result)}
  /\ UNCHANGED ncalls

\* updateLocation is called (by the home page, by the SOS button): it sets
\* isLoadingLocation and makes the high-accuracy position request; where the
\* browser has no geolocation it tells the user and rejects at once.
UpdateLocation ==
  /\ \E supported \in BOOLEAN :
       IF supported
         THEN /\ Called([NewCall("locate", Victim, "getCurrentPosition")
                           EXCEPT !.notes = {"request1"}])
              /\ isLoadingLocation' = TRUE
         ELSE /\ CalledAndReturned([NewCall("locate", Victim, "geolocation")
                                      EXCEPT !.notes = {"loaded", "toast"}],
                                   "rejected")
              /\ isLoadingLocation' = FALSE
  /\ UNCHANGED <<storeDocs, clientState, failures, location>>
  /\ UNCHANGED <<outsideLocation, discVars>>

\* The success callback of a position request up to its await: the position
\* becomes the cached location and, with a user, is written to the user's
\* document (the call awaits write); with no user the promise resolves.
PositionFound(i, write) ==
  LET call == [calls[i] EXCEPT !.pc = write,
                               !.lat = VictimPosition.lat,
                               !.lng = VictimPosition.lng,
                               !.notes = @ \cup {"loaded"}]
  IN /\ location' = TRUE
     /\ isLoadingLocation' = FALSE
     /\ IF user THEN Goes(i, call) ELSE ReturnsAs(i, call, "resolved")

\* Whether the error callback of the first request makes the second request:
\* on a timeout it does, with low accuracy, and returns; on the other codes
\* it tells the user and rejects.
RetriesMut(code) == code \in {"TIMEOUT", "POSITION_UNAVAILABLE"}

Retries(code) == code = "TIMEOUT"

\* The first position request is answered
FirstPosition ==
  /\ \E i \in Waiting("locate", "getCurrentPosition"),
        answer \in {"position"} \cup PositionErrors :
       IF answer = "position"
         THEN PositionFound(i, "updateUserLocation")
         ELSE IF Retries(answer)
           THEN /\ Goes(i, [calls[i] EXCEPT
                              !.pc = "retryPosition",
                              !.notes = @ \cup {answer, "request2"}])
                /\ UNCHANGED <<location, isLoadingLocation>>
           ELSE /\ ReturnsAs(i, [calls[i] EXCEPT
                                   !.notes = @ \cup {answer, "loaded",
                                                     "toast"}],
                             "rejected")
                /\ isLoadingLocation' = FALSE
                /\ UNCHANGED location
  /\ UNCHANGED <<storeDocs, clientState, failures>>
  /\ UNCHANGED <<outsideLocation, discVars>>

\* The second position request is answered: with a position, or with an
\* error ('GPS failed')
RetryPosition ==
  /\ \E i \in Waiting("locate", "retryPosition"), ok \in BOOLEAN :
       IF ok
         THEN PositionFound(i, "updateUserLocationRetry")
         ELSE /\ ReturnsAs(i, [calls[i] EXCEPT
                                 !.notes = @ \cup {"GPS failed", "loaded"}],
                           "rejected")
              /\ isLoadingLocation' = FALSE
              /\ UNCHANGED location
  /\ UNCHANGED <<storeDocs, clientState, failures>>
  /\ UNCHANGED <<outsideLocation, discVars>>

\* The writes of updateLocation to the user's document
LocationWrites == {"updateUserLocation", "updateUserLocationRetry"}

\* await updateUserLocation(lat, lng) is done (the users collection is read
\* by discovery alone, from a snapshot of its own): resolve(newLocation)
UserLocationWritten ==
  /\ \E i \in DOMAIN calls :
       /\ calls[i].op = "locate" /\ calls[i].pc \in LocationWrites
       /\ Returns(i, "resolved")
  /\ UNCHANGED <<storeDocs, clientState, failures>>
  /\ UNCHANGED outsideStore

\* await updateUserLocation(lat, lng) throws.  The callback of the first
\* request catches the error and resolves; the callback of the second has no
\* try: it ends there, and neither resolve nor reject is ever called.
UserLocationFails ==
  /\ failures < MaxFailures
  /\ failures' = failures + 1
  /\ \E i \in DOMAIN calls :
       /\ calls[i].op = "locate" /\ calls[i].pc \in LocationWrites
       /\ IF calls[i].pc = "updateUserLocation"
            THEN Returns(i, "resolved")
            ELSE Goes(i, [calls[i] EXCEPT !.pc = "thrown"])
  /\ UNCHANGED <<storeDocs, clientState>>
  /\ UNCHANGED outsideStore

\* ---- the subscription to the helper's alerts ------------------------------

\* The calls of handler op by client u on emergency e, in flight or returned
CallsOf(op, u, e) ==
  {Done(calls[i], "pending") :
     i \in {x \in DOMAIN calls :
              calls[x].op = op /\ calls[x].client = u /\ calls[x].e = e}}
    \cup {r \in returned : r.op = op /\ r.client = u /\ r.e = e}

\* The callback of the helper's query (helperId == uid, status == pending)
\* gets an alert as a change of type 'added': it shows the toast and the
\* notification and goes on to mark the alert.  A subscription reports a
\* document as added once.
AlertReceived ==
  /\ \E k \in DOMAIN helperAlerts :
       /\ helperAlerts[k].status = "pending"
       /\ CallsOf("deliver", helperAlerts[k].helperId,
                  helperAlerts[k].emergencyId) = {}
       /\ Called([NewCall("deliver", helperAlerts[k].helperId, "markDelivered")
                    EXCEPT !.e = helperAlerts[k].emergencyId,
                           !.chat = helperAlerts[k].chatId,
                           !.notes = {"toast"}])
  /\ UNCHANGED <<storeDocs, clientState, failures>>
  /\ UNCHANGED outsideStore

\* What the callback writes to the alert
DeliveredMut == [status |-> "pending"]

Delivered == [status |-> "delivered"]

\* updateDoc(change.doc.ref, {status: 'delivered'})
MarkDelivered ==
  /\ \E i \in Waiting("deliver", "markDelivered") :
       /\ helperAlerts' =
            [k \in DOMAIN helperAlerts |->
               IF /\ helperAlerts[k].helperId = calls[i].client
                  /\ helperAlerts[k].emergencyId = calls[i].e
                 THEN [helperAlerts[k] EXCEPT !.status = Delivered.status]
                 ELSE helperAlerts[k]]
       /\ Returns(i, "ok")
  /\ UNCHANGED <<emergencies, chats, messages, clientState, failures>>
  /\ UNCHANGED outsideStore

\* ---- the click on the notification of a helper alert ---------------------

\* notification.onclick of a helper alert that names its chat: the helper's
\* device reads the chat
NotificationClick ==
  /\ \E k \in DOMAIN helperAlerts :
       /\ helperAlerts[k].chatId # 0
       /\ Called([NewCall("notify", helperAlerts[k].helperId, "getChat") EXCEPT
                    !.e = helperAlerts[k].emergencyId,
                    !.chat = helperAlerts[k].chatId])
  /\ UNCHANGED <<storeDocs, clientState, failures>>
  /\ UNCHANGED outsideStore

\* getDoc(chatRef); chats are never deleted, so chatDoc.exists()
NotifyGetChat ==
  /\ \E i \in Waiting("notify", "getChat") :
       Goes(i, [calls[i] EXCEPT !.seen = chats[calls[i].chat].participants,
                                !.pc = "addParticipant"])
  /\ UNCHANGED <<storeDocs, clientState, failures>>
  /\ UNCHANGED outsideStore

\* updateDoc(chatRef, {participants: arrayUnion(uid)}), then
\* window.location.href = '/chat': the page is loaded anew and the device's
\* currentChat is null again
NotifyAddParticipant ==
  /\ \E i \in Waiting("notify", "addParticipant") :
       /\ chats' = [chats EXCEPT ![calls[i].chat].participants =
                      ArrayUnion(@, calls[i].seen, {calls[i].client})]
       /\ currentChat' = [currentChat EXCEPT ![calls[i].client] = NoChat]
       /\ Returns(i, "ok")
  /\ UNCHANGED <<emergencies, messages, helperAlerts, currentEmergency,
                 isEmergencyActive, chatLoads, chatExpiryTimeoutRef, timers,
                 failures>>
  /\ UNCHANGED outsideStore

\* ---- sendChatMessage and sendLocationMessage ----------------------------

\* The two handlers differ in the message they post at the end (and in the
\* location sendLocationMessage needs): send stands for a call of either.
SendTexts == {"text", "location"}

\* The send call device u makes now; it notes whether the chat is closed in
\* the store
SendCall(u) ==
  [NewCall("send", u, "getChat") EXCEPT
     !.chat = currentChat[u].id,
     !.e = chats[currentChat[u].id].emergencyId,
     !.notes = IF chats[currentChat[u].id].activeStatus THEN {} ELSE {"closed"}]

\* One of the two is called by a client that has a currentChat (and, for
\* sendLocationMessage, a location): it is refused when the activeStatus of
\* the client's copy is false.
SendMessage ==
  /\ \E u \in Uids :
       /\ currentChat[u] # NoChat
       /\ IF currentChat[u].activeStatus
            THEN Called(SendCall(u))
            ELSE CalledAndReturned(SendCall(u), "refused")
  /\ UNCHANGED <<storeDocs, clientState, failures>>
  /\ UNCHANGED outsideStore

\* getDoc(chatRef)
SendGetChat ==
  /\ \E i \in Waiting("send", "getChat") :
       /\ Goes(i, [calls[i] EXCEPT
            !.seen = chats[calls[i].chat].participants,
            !.pc = IF Includes(chats[calls[i].chat], calls[i].client)
                     THEN "addMessage" ELSE "addParticipant"])
  /\ UNCHANGED <<storeDocs, clientState, failures>>
  /\ UNCHANGED outsideStore

\* updateDoc(chatRef, {participants: arrayUnion(uid)})
SendAddParticipant ==
  /\ \E i \in Waiting("send", "addParticipant") :
       /\ chats' = [chats EXCEPT ![calls[i].chat].participants =
                      ArrayUnion(@, calls[i].seen, {calls[i].client})]
       /\ Goes(i, [calls[i] EXCEPT !.pc = "addMessage"])
  /\ UNCHANGED <<emergencies, messages, helperAlerts, clientState, failures>>
  /\ UNCHANGED outsideStore

\* addDoc(messages, {senderId: uid, type: 'text' | 'location'})
SendAddMessage ==
  /\ \E i \in Waiting("send", "addMessage"), text \in SendTexts :
       /\ messages' = Append(messages, Message(calls[i].chat, calls[i].client, text))
       /\ Returns(i, "ok")
  /\ UNCHANGED <<emergencies, chats, helperAlerts, clientState, failures>>
  /\ UNCHANGED outsideStore

\* ---- the store refuses an operation -------------------------------------

\* The operation a call is waiting for throws.  The alert loop catches it and
\* goes on with the next helper; everywhere else the handler's catch block
\* reports the error and the call returns.
\* What a handler's catch block tells the user: an error toast ('Failed to
\* create emergency. Please try again.' in triggerEmergency)
CaughtMut(call) == "ok"

Caught(call) == "error"

StoreFails ==
  /\ failures < MaxFailures
  /\ failures' = failures + 1
  /\ \E i \in DOMAIN calls :
       /\ calls[i].pc # "updateLocation"
       /\ calls[i].op # "locate"
       /\ IF calls[i].op = "trigger" /\ calls[i].pc = "alert"
            THEN Goes(i, [AlertLoopOn(calls[i]) EXCEPT
                            !.failed = @ \cup {NextHelper(calls[i])}])
            ELSE Returns(i, Caught(calls[i]))
  /\ UNCHANGED <<storeDocs, clientState>>
  /\ UNCHANGED outsideStore

(***************************************************************************)
(* SOS activation state machine                                            *)
(***************************************************************************)
\* The SOS state of a device at rest, but for user and location
SOSAtRest ==
  /\ isLoadingLocation = FALSE
  /\ sosHoldProgress = 0
  /\ showConfirmation = FALSE
  /\ confirmationTimeout = CONFIRMATION_SECONDS
  /\ rapidTapCount = 0
  /\ rapidTapTimeoutRef = FALSE
  /\ holdTimerRef = FALSE
  /\ progressIntervalRef = FALSE
  /\ isHoldingRef = FALSE
  /\ progressRef = 0
  /\ pressed = FALSE
  /\ heldMs = 0
  /\ tapsThisPress = 0
  /\ expiredAt = -1
  /\ lastOp = "init"
  /\ rel = NoRel
  /\ lastTrigger = NoTrigger

SOSInit ==
  /\ user \in BOOLEAN
  /\ location = FALSE
  /\ SOSAtRest

\* The argument the SOS machine passes to triggerEmergency: the countdown effect
\* and the confirm button both call triggerEmergency() with no argument.
TriggerReasonArg(via) == "none"

\* triggerEmergency up to its first await, given the values of showConfirmation,
\* confirmationTimeout and isLoadingLocation the calling handler has produced:
\* the values after the call, and whether the call went past the user check.
TriggerPrefix(show, timeout, loading) ==
  IF ~user
    THEN [show |-> show, timeout |-> timeout, loading |-> loading,
          dispatched |-> FALSE]
    ELSE [show |-> FALSE, timeout |-> CONFIRMATION_SECONDS,
          loading |-> IF location THEN loading ELSE TRUE,
          dispatched |-> TRUE]

\* The dependency check of the countdown effect, [showConfirmation,
\* confirmationTimeout]: the effect body runs after a render that changed one of
\* them, and its second branch is taken at showConfirmation && timeout === 0.
CountdownEffectFires(show0, timeout0, show1, timeout1) ==
  /\ (show1 # show0 \/ timeout1 # timeout0)
  /\ show1
  /\ timeout1 = 0

\* The render that follows a handler which left showConfirmation = show1,
\* confirmationTimeout = timeout1 and isLoadingLocation = loading1: the countdown
\* effect runs, and at 0 it calls triggerEmergency.
Render(show1, timeout1, loading1) ==
  LET r == TriggerPrefix(show1, timeout1, loading1)
  IN IF CountdownEffectFires(showConfirmation, confirmationTimeout, show1, timeout1)
       THEN /\ showConfirmation' = r.show
            /\ confirmationTimeout' = r.timeout
            /\ isLoadingLocation' = r.loading
            /\ lastTrigger' = [via |-> "effect",
                               reason |-> TriggerReasonArg("effect"),
                               dispatched |-> r.dispatched]
       ELSE /\ showConfirmation' = show1
            /\ confirmationTimeout' = timeout1
            /\ isLoadingLocation' = loading1
            /\ lastTrigger' = NoTrigger

\* SOSButton.startHold. The confirmation popup's backdrop covers the button, so a
\* press reaches the button only while the popup is not shown.
StartHold ==
  /\ UNCHANGED outsideSOS
  /\ ~pressed
  /\ ~showConfirmation
  /\ pressed' = TRUE
  /\ heldMs' = 0
  /\ tapsThisPress' = 0
  /\ lastOp' = "startHold"
  /\ rel' = NoRel
  /\ IF isLoadingLocation
       THEN /\ UNCHANGED <<isHoldingRef, progressRef, sosHoldProgress,
                           progressIntervalRef, holdTimerRef>>
            /\ Render(showConfirmation, confirmationTimeout, isLoadingLocation)
       ELSE /\ isHoldingRef' = TRUE
            /\ progressRef' = 0
            /\ sosHoldProgress' = 0
            /\ progressIntervalRef' = TRUE
            /\ holdTimerRef' = TRUE
            /\ Render(showConfirmation, confirmationTimeout, TRUE)
  /\ UNCHANGED <<user, location, rapidTapCount, rapidTapTimeoutRef, expiredAt>>

\* PROGRESS_INTERVAL ms pass while the button is down; the interval callback of
\* startHold runs when the interval is set.
ProgressTick ==
  /\ UNCHANGED outsideSOS
  /\ pressed
  /\ heldMs < HOLD_DURATION
  /\ heldMs' = heldMs + PROGRESS_INTERVAL
  /\ lastOp' = "tick"
  /\ rel' = NoRel
  /\ IF progressIntervalRef
       THEN /\ progressRef' = Min(progressRef + PROGRESS_INTERVAL, HOLD_DURATION)
            /\ sosHoldProgress' = progressRef'
       ELSE UNCHANGED <<progressRef, sosHoldProgress>>
  /\ Render(showConfirmation, confirmationTimeout, isLoadingLocation)
  /\ UNCHANGED <<user, location, rapidTapCount, rapidTapTimeoutRef,
                 holdTimerRef, progressIntervalRef, isHoldingRef, pressed,
                 tapsThisPress, expiredAt>>

\* The hold timer of startHold fires, HOLD_DURATION ms after the press.
HoldTimerFires ==
  /\ UNCHANGED outsideSOS
  /\ holdTimerRef
  /\ heldMs = HOLD_DURATION
  /\ holdTimerRef' = FALSE
  /\ lastOp' = "holdTimer"
  /\ rel' = NoRel
  /\ IF isHoldingRef
       THEN /\ sosHoldProgress' = 0
            /\ progressRef' = 0
            /\ progressIntervalRef' = FALSE
            /\ Render(TRUE, confirmationTimeout, isLoadingLocation)
       ELSE /\ UNCHANGED <<sosHoldProgress, progressRef, progressIntervalRef>>
            /\ Render(showConfirmation, confirmationTimeout, isLoadingLocation)
  /\ UNCHANGED <<user, location, rapidTapCount, rapidTapTimeoutRef,
                 isHoldingRef, pressed, heldMs, tapsThisPress, expiredAt>>

\* EmergencyContext.registerRapidTap, as the values of rapidTapCount and
\* showConfirmation after it; the window timer is restarted by every call.
RegisterRapidTap(count, show) ==
  LET newCount == count + 1
  IN IF newCount >= RAPID_TAPS
       THEN [count |-> 0, show |-> TRUE]
       ELSE [count |-> newCount, show |-> show]

\* endHold's test "if not completed, register as rapid tap" on progress p
EndHoldTapsMut(p) == p <= HOLD_DURATION /\ p >= 0
EndHoldTaps(p) == p < HOLD_DURATION /\ p > 0

\* SOSButton.endHold: mouseup, mouseleave and touchend all run it, pressed or not.
\* It clears the interval, the only reader of progressRef, and startHold writes 0
\* to progressRef before it starts the next one: the dead value is kept as 0.
EndHold ==
  LET tap == EndHoldTaps(sosHoldProgress)
      res == RegisterRapidTap(rapidTapCount, showConfirmation)
  IN /\ pressed' = FALSE
     /\ heldMs' = 0
     /\ isHoldingRef' = FALSE
     /\ holdTimerRef' = FALSE
     /\ progressIntervalRef' = FALSE
     /\ progressRef' = 0
     /\ lastOp' = "endHold"
     /\ rel' = [progress |-> sosHoldProgress, count |-> rapidTapCount,
                window |-> rapidTapTimeoutRef, tapped |-> tap]
     /\ IF tap
          THEN /\ rapidTapCount' = res.count
               /\ rapidTapTimeoutRef' = TRUE
               /\ tapsThisPress' = tapsThisPress + 1
               /\ Render(res.show, confirmationTimeout, isLoadingLocation)
          ELSE /\ UNCHANGED <<rapidTapCount, rapidTapTimeoutRef, tapsThisPress>>
               /\ Render(showConfirmation, confirmationTimeout, isLoadingLocation)
     /\ sosHoldProgress' = 0
     /\ UNCHANGED <<user, location, expiredAt>>
     /\ UNCHANGED outsideSOS

\* The value the window timer's callback gives rapidTapCount
RapidTapExpiryCountMut == rapidTapCount
RapidTapExpiryCount == 0

\* The rapid-tap window timer set by registerRapidTap expires.
RapidTapExpires ==
  /\ UNCHANGED outsideSOS
  /\ rapidTapTimeoutRef
  /\ rapidTapTimeoutRef' = FALSE
  /\ rapidTapCount' = RapidTapExpiryCount
  /\ expiredAt' = rapidTapCount
  /\ lastOp' = "tapExpiry"
  /\ rel' = NoRel
  /\ Render(showConfirmation, confirmationTimeout, isLoadingLocation)
  /\ UNCHANGED <<user, location, sosHoldProgress, holdTimerRef,
                 progressIntervalRef, isHoldingRef, progressRef, pressed, heldMs,
                 tapsThisPress>>

\* The one-second timer of the countdown effect fires and decrements the
\* countdown; the render that follows runs the effect for the new value.
CountdownTick ==
  /\ UNCHANGED outsideSOS
  /\ showConfirmation
  /\ confirmationTimeout > 0
  /\ lastOp' = "countdown"
  /\ rel' = NoRel
  /\ Render(showConfirmation, confirmationTimeout - 1, isLoadingLocation)
  /\ UNCHANGED <<user, location, sosHoldProgress, rapidTapCount,
                 rapidTapTimeoutRef, holdTimerRef, progressIntervalRef,
                 isHoldingRef, progressRef, pressed, heldMs, tapsThisPress, expiredAt>>

\* The confirm button of the confirmation popup: onClick={() => triggerEmergency()}
ConfirmClick ==
  LET r == TriggerPrefix(showConfirmation, confirmationTimeout, isLoadingLocation)
  IN /\ showConfirmation
     /\ lastOp' = "confirm"
     /\ rel' = NoRel
     /\ showConfirmation' = r.show
     /\ confirmationTimeout' = r.timeout
     /\ isLoadingLocation' = r.loading
     /\ lastTrigger' = [via |-> "confirm", reason |-> TriggerReasonArg("confirm"),
                        dispatched |-> r.dispatched]
     /\ UNCHANGED <<user, location, sosHoldProgress, rapidTapCount,
                    rapidTapTimeoutRef, holdTimerRef, progressIntervalRef,
                    isHoldingRef, progressRef, pressed, heldMs, tapsThisPress, expiredAt>>
     /\ UNCHANGED outsideSOS

\* EmergencyContext.cancelSOS, from the popup's cancel button or its backdrop
\* The four values cancelSOS sets
CancelledMut ==
  [show |-> FALSE, timeout |-> confirmationTimeout, progress |-> 0, count |-> 0]

Cancelled ==
  [show |-> FALSE, timeout |-> CONFIRMATION_SECONDS, progress |-> 0, count |-> 0]

CancelSOS ==
  /\ UNCHANGED outsideSOS
  /\ showConfirmation
  /\ sosHoldProgress' = Cancelled.progress
  /\ rapidTapCount' = Cancelled.count
  /\ lastOp' = "cancel"
  /\ rel' = NoRel
  /\ Render(Cancelled.show, Cancelled.timeout, isLoadingLocation)
  /\ UNCHANGED <<user, location, rapidTapTimeoutRef, holdTimerRef,
                 progressIntervalRef, isHoldingRef, progressRef, pressed, heldMs,
                 tapsThisPress, expiredAt>>

\* The position request of updateLocation is answered, with a position or with an
\* error: both set isLoadingLocation back to false.
LocationAnswer ==
  /\ UNCHANGED outsideSOS
  /\ isLoadingLocation
  /\ \E ok \in BOOLEAN : location' = (location \/ ok)
  /\ lastOp' = "location"
  /\ rel' = NoRel
  /\ Render(showConfirmation, confirmationTimeout, FALSE)
  /\ UNCHANGED <<user, sosHoldProgress, rapidTapCount, rapidTapTimeoutRef,
                 holdTimerRef, progressIntervalRef, isHoldingRef, progressRef,
                 pressed, heldMs, tapsThisPress, expiredAt>>

\* The home page calls updateLocation when it mounts and every 30 s.
LocationPoll ==
  /\ UNCHANGED outsideSOS
  /\ ~isLoadingLocation
  /\ lastOp' = "poll"
  /\ rel' = NoRel
  /\ Render(showConfirmation, confirmationTimeout, TRUE)
  /\ UNCHANGED <<user, location, sosHoldProgress, rapidTapCount,
                 rapidTapTimeoutRef, holdTimerRef, progressIntervalRef,
                 isHoldingRef, progressRef, pressed, heldMs, tapsThisPress,
                 expiredAt>>

SOSNext ==
  \/ StartHold
  \/ ProgressTick
  \/ HoldTimerFires
  \/ EndHold
  \/ RapidTapExpires
  \/ CountdownTick
  \/ ConfirmClick
  \/ CancelSOS
  \/ LocationAnswer
  \/ LocationPoll

\* The SOS machine alone: no discovery call is made.
DiscIdle ==
  /\ usersSnapshot = <<>>
  /\ origin = 0
  /\ meridian = 0
  /\ discResult = NoResult

InitSOS == SOSInit /\ DiscIdle /\ StoreInit

SpecSOS == InitSOS /\ [][SOSNext]_vars

(***************************************************************************)
(* One call of helper discovery on a users collection                      *)
(***************************************************************************)
\* A users collection as getDocs returns it; the caller is signed in, so their
\* own document is online.
DiscInit ==
  /\ meridian \in MeridianChoices
  /\ origin \in OriginChoices
  /\ usersSnapshot \in [DocIds -> UserDocs(meridian)]
  /\ usersSnapshot[Caller].isOnline /\ usersSnapshot[Caller].recent
  /\ usersSnapshot[Caller].lat \in {0, 5}
  /\ discResult = NoResult

Discover ==
  /\ UNCHANGED outsideDisc
  /\ discResult = NoResult
  /\ discResult' = FindNearbyUsersWithExpansion(usersSnapshot, origin, meridian,
                                               Caller)
  /\ UNCHANGED <<usersSnapshot, origin, meridian>>

\* The discovery function alone: the SOS machine does not move.
SOSIdle ==
  /\ SOSInit
  /\ user = TRUE

InitDiscovery == DiscInit /\ SOSIdle /\ StoreInit

DiscNext == Discover

SpecDiscovery == InitDiscovery /\ [][DiscNext]_vars

\* triggerEmergency from the first call on: the device of a visitor or of a
\* signed-in user, with no cached location yet, and an empty store
InitTrigger == StoreInit /\ SOSInit /\ DiscIdle

TriggerNext ==
  \/ TriggerEmergency \/ TriggerLocation \/ AddEmergency \/ AddChat
  \/ LinkChat \/ AddSystemMessage \/ FindNearbyUsers \/ AddParticipants
  \/ AlertHelper \/ SetActive \/ AddLocationMessage \/ SetExpiresAt
  \/ ChatLoaded
  \/ StoreFails

SpecTrigger == InitTrigger /\ [][TriggerNext]_vars

\* The store and the victim's device once a first triggerEmergency call has
\* returned and no other handler has run: the emergency is active with its
\* chat, the helpers found are participants and have their alerts, the expiry
\* timer is set, and the getDoc(chat) of the listener may still be in flight.
\* The call had the device's position, which is then the cached location, or
\* went on without one.
OpenInit ==
  \E snap \in ScanChoices, position \in {VictimPosition, ZeroLocation} :
    LET call == Scanned([NewCall("trigger", Victim, "findNearbyUsers") EXCEPT
                           !.e = 1, !.chat = 1,
                           !.lat = position.lat, !.lng = position.lng,
                           !.notes = IF position = ZeroLocation
                                       THEN {"warned"} ELSE {}], snap)
    IN
    /\ emergencies = <<[EmergencyData(Victim, position.lat, position.lng)
                          EXCEPT !.status = "active", !.chatId = 1]>>
    /\ chats = <<[emergencyId |-> 1, participants |-> {Victim} \cup call.found,
                  activeStatus |-> TRUE]>>
    /\ messages = <<Message(1, System, "activated")>>
                    \o (IF position # ZeroLocation
                          THEN <<Message(1, Victim, "location")>> ELSE <<>>)
    /\ helperAlerts = AlertsOf(call.found, 1, 1)
    /\ calls = <<>>
    /\ returned = {Done([call EXCEPT !.todo = {}, !.pc = "setExpiresAt"], "ok")}
    /\ ncalls = 1
    /\ failures = 0
    /\ currentEmergency = 1
    /\ isEmergencyActive = TRUE
    /\ currentChat = [u \in Uids |-> IF u = Victim
                                       THEN [id |-> 1, activeStatus |-> TRUE]
                                       ELSE NoChat]
    /\ chatLoads \in SUBSET {1}
    /\ chatExpiryTimeoutRef = 1
    /\ timers = {1}
    /\ location = (position # ZeroLocation)

InitOpen == OpenInit /\ user = TRUE /\ SOSAtRest /\ DiscIdle

\* The life of the victim's emergencies: trigger, the listener, resolve, expiry
SessionNext ==
  \/ TriggerEmergency \/ TriggerLocation \/ AddEmergency \/ AddChat \/ LinkChat
  \/ AddSystemMessage \/ FindNearbyUsers \/ AddParticipants \/ AlertHelper
  \/ SetActive \/ AddLocationMessage \/ SetExpiresAt
  \/ ExpiryFires \/ ExpireChat \/ ExpireEmergency \/ AddExpiredMessage
  \/ ChatLoaded
  \/ ResolveEmergency \/ CloseEmergency \/ CloseChat \/ AddResolvedMessage

SpecSession == InitOpen /\ [][SessionNext]_vars

\* The chat of an emergency: join, send, and what closes it.  A device has a
\* currentChat only of a chat its user is a participant of, so no send call
\* waits for SendAddParticipant (NoSendAddsParticipant).
ChatNext ==
  \/ ExpiryFires \/ ExpireChat \/ ExpireEmergency \/ AddExpiredMessage
  \/ ChatLoaded
  \/ ResolveEmergency \/ CloseEmergency \/ CloseChat \/ AddResolvedMessage
  \/ JoinEmergencyChat \/ JoinGetChat \/ JoinAddParticipant \/ AddJoinMessage
  \/ SendMessage \/ SendGetChat \/ SendAddMessage
  \/ NotificationClick \/ NotifyGetChat \/ NotifyAddParticipant
  \/ StoreFails

SpecChat == InitOpen /\ [][ChatNext]_vars

\* The helpers' devices and the alerts of an emergency: the alerts are
\* received and marked, and the notifications are clicked
AlertNext ==
  \/ AlertReceived \/ MarkDelivered
  \/ NotificationClick \/ NotifyGetChat \/ NotifyAddParticipant
  \/ StoreFails

SpecAlerts == InitOpen /\ [][AlertNext]_vars

\* updateLocation alone, on the device of a visitor or of a signed-in user
LocationNext ==
  \/ UpdateLocation \/ FirstPosition \/ RetryPosition
  \/ UserLocationWritten \/ UserLocationFails

SpecLocation == InitTrigger /\ [][LocationNext]_vars

(***************************************************************************)
(* Properties of the SOS activation state machine                          *)
(***************************************************************************)

\* C5: every press kept down for HOLD_DURATION ms ends in Confirming
\* (showConfirmation = TRUE) with hold progress 0, in every state in which the
\* press began, also while a location fetch was in progress.
C5_HoldAlwaysConfirms ==
  (pressed /\ heldMs = HOLD_DURATION /\ ~holdTimerRef
     /\ lastOp \in {"tick", "holdTimer"})
    => (showConfirmation /\ sosHoldProgress = 0)

\* C6: a release with progress strictly between 0 and 100 registers one rapid tap
\* (rapidTapCount advances by one step of registerRapidTap) and resets progress
\* to 0; a release at 0 or at 100 registers none; the release events of one press
\* register at most one tap together.
C6_ReleaseRegistersOneTap ==
  lastOp = "endHold" =>
    /\ sosHoldProgress = 0
    /\ rel.tapped <=> (0 < rel.progress /\ rel.progress < HOLD_DURATION)
    /\ rel.tapped =>
          rapidTapCount = (IF rel.count + 1 >= RAPID_TAPS THEN 0 ELSE rel.count + 1)
    /\ ~rel.tapped => rapidTapCount = rel.count
    /\ tapsThisPress <= 1

\* A further release event of a press that has already registered its tap.
C6_Witness ==
  lastOp = "endHold" /\ ~rel.tapped /\ tapsThisPress = 1 /\ rapidTapCount = 1

\* C7: the third of three taps, each within the window of the one before, invokes
\* the trigger operation in the same step, without the confirmation popup, and
\* leaves the tap counter at 0.
C7_ThreeTapsTriggerDirectly ==
  (lastOp = "endHold" /\ rel.tapped /\ rel.window /\ rel.count = RAPID_TAPS - 1)
    => (lastTrigger.via # "none" /\ ~showConfirmation /\ rapidTapCount = 0)

\* C8: every tap restarts the window timer, the timer's expiry sets the counter
\* to 0, and a tap that arrives when the window has elapsed leaves the counter
\* at exactly 1.
C8_TapAfterWindowCountsOne ==
  /\ ~rapidTapTimeoutRef => rapidTapCount = 0
  /\ lastOp = "tapExpiry" => (rapidTapCount = 0 /\ ~rapidTapTimeoutRef)
  /\ (lastOp = "endHold" /\ rel.tapped) => rapidTapTimeoutRef
  /\ (lastOp = "endHold" /\ rel.tapped /\ ~rel.window) => rapidTapCount = 1

\* A tap after a window that expired with two taps counted.
C8_Witness ==
  /\ lastOp = "endHold" /\ rel.tapped /\ ~rel.window
  /\ expiredAt = RAPID_TAPS - 1
  /\ rapidTapCount = 1

\* C9: the countdown reaching 0 invokes the trigger operation once, from the
\* countdown step, with trigger reason "auto".
C9_AutoTriggerOnceWithReasonAuto ==
  lastTrigger.via = "effect" =>
    (lastOp = "countdown" /\ lastTrigger.reason = "auto")

\* C25: cancelSOS leaves the popup closed, the countdown at
\* CONFIRMATION_SECONDS, the hold progress and the tap counter at 0 and
\* calls no trigger; the countdown's timer fires only while the popup is
\* shown, and triggerEmergency is called only from a step that began with the
\* popup shown: none follows a cancel before the popup has been opened again.
C25_CancelReturnsToIdle ==
  /\ [](lastOp = "cancel" =>
          /\ ~showConfirmation
          /\ confirmationTimeout = CONFIRMATION_SECONDS
          /\ sosHoldProgress = 0
          /\ rapidTapCount = 0
          /\ lastTrigger = NoTrigger)
  /\ [][(lastOp' = "countdown" \/ lastTrigger' # NoTrigger)
          => showConfirmation]_vars

\* A popup opened by the third rapid tap has been cancelled while the tap
\* window's timer was still pending
C25_Witness ==
  /\ lastOp = "cancel" /\ rapidTapTimeoutRef
  /\ ~showConfirmation /\ confirmationTimeout = CONFIRMATION_SECONDS
  /\ rapidTapCount = 0

\* C26: the step in which triggerEmergency is called, by the confirm button
\* or by the countdown at 0, leaves the popup closed and the countdown at
\* CONFIRMATION_SECONDS, whatever becomes of the location fetch and the store
\* writes of the call.
C26_TriggeredReturnsToIdle ==
  lastTrigger.via # "none" =>
    ~showConfirmation /\ confirmationTimeout = CONFIRMATION_SECONDS

(***************************************************************************)
(* Properties of helper discovery                                          *)
(***************************************************************************)
RadiusSeq ==
  {r \in MIN_SEARCH_RADIUS..MAX_SEARCH_RADIUS :
     (r - MIN_SEARCH_RADIUS) % RADIUS_INCREMENT = 0}

\* The eligible users of the claim within r: every user other than the caller
\* whose location is known, at distance <= r
EligibleWithin(r) ==
  {id \in DocIds :
     /\ id # Caller
     /\ usersSnapshot[id].located
     /\ CalculateDistance(origin, meridian, usersSnapshot[id].lat,
                          usersSnapshot[id].lng) <= r}

ResultIds == {discResult.users[i].id : i \in DOMAIN discResult.users}

\* C10: the returned radius is the smallest radius of the sequence 5, 10, ..., 50
\* within which an eligible user lies, and the returned users are exactly the
\* eligible users within that radius.
C10_SmallestRadiusExactUsers ==
  (discResult # NoResult /\ \E r \in RadiusSeq : EligibleWithin(r) # {}) =>
    /\ discResult.radius \in RadiusSeq
    /\ EligibleWithin(discResult.radius) # {}
    /\ \A r \in RadiusSeq : r < discResult.radius => EligibleWithin(r) = {}
    /\ ResultIds = EligibleWithin(discResult.radius)

\* C12: in the list findNearbyUsersWithExpansion returns every online user
\* stands before every offline user, distances do not decrease within the
\* online users nor within the offline users, and a user is online when the
\* document has isOnline true or a last activity within the last 5 minutes.
C12_OnlineFirstThenDistance ==
  LET users == discResult.users
  IN /\ \A i \in DOMAIN users, j \in DOMAIN users :
          i < j =>
            /\ users[j].isOnline => users[i].isOnline
            /\ users[i].isOnline = users[j].isOnline
                 => users[i].distance <= users[j].distance
     /\ \A i \in DOMAIN users :
          users[i].isOnline = (usersSnapshot[users[i].id].isOnline
                               \/ usersSnapshot[users[i].id].recent)

\* An online user, online by recent activity alone, stands before a nearer
\* offline user of the same radius
C12_Witness ==
  \E i \in DOMAIN discResult.users, j \in DOMAIN discResult.users :
    /\ i < j
    /\ discResult.users[i].isOnline /\ ~discResult.users[j].isOnline
    /\ ~usersSnapshot[discResult.users[i].id].isOnline
    /\ discResult.users[i].distance > discResult.users[j].distance

(***************************************************************************)
(* Properties of the sessions                                              *)
(***************************************************************************)
\* The participants a chat was given by the trigger call that has returned:
\* the victim and the helpers discovery found
Before(chatId) ==
  {emergencies[chats[chatId].emergencyId].victimId}
    \cup UNION {r.found : r \in {x \in returned : x.op = "trigger" /\ x.chat = chatId}}

\* The users that have called joinEmergencyChat or a send handler on a chat
Callers(chatId) ==
  {calls[i].client : i \in {j \in DOMAIN calls :
                              calls[j].op \in {"join", "send"} /\ calls[j].chat = chatId}}
    \cup {r.client : r \in {x \in returned :
                              x.op \in {"join", "send"} /\ x.chat = chatId}}

\* The branch of the send handlers that adds the sender is never taken
NoSendAddsParticipant == Waiting("send", "addParticipant") = {}

\* C1: whatever the order and the interleaving of joinEmergencyChat calls on
\* a session, its participants are those it had before together with the
\* callers: nobody it had is lost (neither from before nor from what a call
\* in flight has read), every caller whose call has returned is in it, and
\* nobody else is.
C1_JoinsUniteParticipants ==
  \A chatId \in DOMAIN chats :
    /\ Before(chatId) \subseteq chats[chatId].participants
    /\ chats[chatId].participants \subseteq Before(chatId) \cup Callers(chatId)
    /\ \A i \in DOMAIN calls :
         (calls[i].op = "join" /\ calls[i].chat = chatId)
           => calls[i].seen \subseteq chats[chatId].participants
    /\ \A r \in returned :
         (r.op = "join" /\ r.chat = chatId /\ r.result = "ok")
           => r.client \in chats[chatId].participants

\* Two joinEmergencyChat calls have overlapped: the second is about to write
\* after a read that did not see the first caller, who has returned and is a
\* participant.
C1_Witness ==
  \E i \in Waiting("join", "addParticipant"), r \in returned :
    /\ r.op = "join" /\ r.result = "ok" /\ r.chat = calls[i].chat
    /\ r.client # calls[i].client
    /\ r.client \notin calls[i].seen
    /\ r.client \in chats[r.chat].participants

\* The messages resolveEmergency has posted in a chat
ResolvedMessages(chatId) ==
  {k \in DOMAIN messages :
     messages[k].chatId = chatId /\ messages[k].text = "resolved"}

\* C2: once the resolveEmergency calls on an emergency with an open session
\* have returned, however many they were and however they overlapped, the
\* emergency is closed, its chat has activeStatus false, and the chat holds
\* exactly one closing message.
C2_ResolveClosesOnce ==
  \A r \in returned :
    (/\ r.op = "resolve" /\ r.result = "ok" /\ "triggered" \in r.notes
     /\ r.chat = emergencies[r.e].chatId
     /\ \A i \in DOMAIN calls : calls[i].op = "resolve" => calls[i].e # r.e)
      => /\ emergencies[r.e].status = "closed"
         /\ ~chats[r.chat].activeStatus
         /\ Cardinality(ResolvedMessages(r.chat)) = 1

\* C3: an emergency that was triggered and then resolved is closed in the
\* store, no later resolveEmergency call has it as its target, and a
\* resolveEmergency call made once every emergency of the victim has been
\* resolved in this way, with no triggerEmergency call in flight, returns at
\* the check of currentEmergency: it writes no document and fails nowhere.
C3_ResolveAgainChangesNothing ==
  /\ \A e \in ResolvedAfterTrigger : emergencies[e].status = "closed"
  /\ \A i \in DOMAIN calls :
       calls[i].op = "resolve" =>
         "settled" \notin calls[i].notes /\ "again" \notin calls[i].notes
  /\ \A r \in returned :
       (r.op = "resolve" /\ "settled" \in r.notes) => r.result = "ignored"

\* A second resolveEmergency call was made after the resolve of the triggered
\* emergency had returned, and it came back without a write
C3_Witness ==
  \E r \in returned, q \in returned :
    /\ r.op = "resolve" /\ r.result = "ok" /\ "triggered" \in r.notes
    /\ emergencies[r.e].status = "closed"
    /\ q.op = "resolve" /\ "settled" \in q.notes /\ q.result = "ignored"

\* C4: a send on a session whose stored activeStatus is false is refused and
\* creates no message, also when the copy the sender's device holds still
\* says the session is active.
C4_ClosedSessionRefusesSend ==
  /\ \A i \in DOMAIN calls :
       calls[i].op = "send" => "closed" \notin calls[i].notes
  /\ \A r \in returned :
       (r.op = "send" /\ "closed" \in r.notes) => r.result = "refused"

\* C13: a session whose stored activeStatus is false keeps it false in every
\* step of every client: join, send, resolve, expiry and the listener.
C13_ClosedIsTerminal ==
  [][\A chatId \in DOMAIN chats :
       ~chats[chatId].activeStatus
         => chatId \in DOMAIN chats' /\ ~chats'[chatId].activeStatus]_vars

\* The expiry timer and a resolve have both written to the session, a join
\* has added a participant to it since, and it is closed
C13_Witness ==
  \E x \in returned, r \in returned, j \in returned :
    /\ x.op = "expire" /\ x.result = "ok"
    /\ r.op = "resolve" /\ r.result = "ok" /\ r.chat = x.chat
    /\ j.op = "join" /\ j.result = "ok" /\ j.chat = x.chat
    /\ ~chats[x.chat].activeStatus

\* C14: no message of any kind is created for a session at a moment when the
\* session's stored activeStatus is false.
C14_MessagesOnlyWhileOpen ==
  [][Len(messages') > Len(messages)
       => chats[messages'[Len(messages')].chatId].activeStatus]_vars

\* The messages joinEmergencyChat has posted in a chat
JoinMessages(chatId) ==
  {k \in DOMAIN messages :
     messages[k].chatId = chatId /\ messages[k].text = "joined"}

\* The users joinEmergencyChat calls have admitted to a chat
Admitted(chatId) == chats[chatId].participants \ Before(chatId)

\* C27: a session holds one 'has joined' message at most for each user a
\* joinEmergencyChat call has admitted to it, however often and from however
\* many devices that user has called joinEmergencyChat.
C27_OneJoinMessagePerUser ==
  \A chatId \in DOMAIN chats :
    Cardinality(JoinMessages(chatId)) <= Cardinality(Admitted(chatId))

\* C28: whenever a send handler creates a message, its sender is among the
\* stored participants of the message's chat at that moment.
C28_SenderIsParticipant ==
  [][(Len(messages') > Len(messages)
        /\ messages'[Len(messages')].senderId # System)
       => messages'[Len(messages')].senderId
            \in chats[messages'[Len(messages')].chatId].participants]_vars

\* A helper a joinEmergencyChat call has admitted has sent a message
C28_Witness ==
  \E k \in DOMAIN messages :
    /\ messages[k].senderId \in Admitted(messages[k].chatId)
    /\ \E r \in returned :
         /\ r.op = "send" /\ r.result = "ok"
         /\ r.client = messages[k].senderId /\ r.chat = messages[k].chatId

\* C30: no step of any client takes a participant from a chat: the fan-out,
\* join, the notification click, send, resolve and expiry leave every chat
\* with the participants it had, and possibly more.
C30_ParticipantsOnlyGrow ==
  [][\A chatId \in DOMAIN chats :
       /\ chatId \in DOMAIN chats'
       /\ chats[chatId].participants \subseteq chats'[chatId].participants]_vars

\* Two helpers have been admitted by joinEmergencyChat calls, and both are
\* participants with the victim
C30_Witness ==
  \E chatId \in DOMAIN chats, a \in returned, b \in returned :
    /\ a.op = "join" /\ b.op = "join" /\ a.client # b.client
    /\ a.chat = chatId /\ b.chat = chatId
    /\ a.pc = "addJoinMessage" /\ b.pc = "addJoinMessage"
    /\ a.result = "ok" /\ b.result = "ok"
    /\ {Victim, a.client, b.client} \subseteq chats[chatId].participants

(***************************************************************************)
(* Properties of triggerEmergency                                          *)
(***************************************************************************)
\* The triggerEmergency calls in flight and those that have returned, as
\* records with the fields both have
TriggerCalls ==
  {Done(calls[i], "pending") : i \in {x \in DOMAIN calls : calls[x].op = "trigger"}}
    \cup {r \in returned : r.op = "trigger"}

\* The helperAlerts documents of helper h for emergency e
AlertsFor(h, e) ==
  {k \in DOMAIN helperAlerts :
     helperAlerts[k].helperId = h /\ helperAlerts[k].emergencyId = e}

\* The operations of triggerEmergency that follow the fan-out
AfterFanOut == {"setActive", "addLocationMessage", "setExpiresAt"}

\* C11: when the users collection holds no user with a stored location within
\* MAX_SEARCH_RADIUS, discovery returns no user and the radius
\* MAX_SEARCH_RADIUS, and triggerEmergency goes on to make the emergency
\* active without a HelperAlert: it fails only where a store write fails.  A
\* call ends at the discovery step only when the scan of the users
\* collection itself has failed.
C11_NobodyFoundIsValid ==
  \A c \in TriggerCalls :
    /\ "nobody" \in c.notes =>
         /\ c.found = {} /\ c.radius = MAX_SEARCH_RADIUS
         /\ c.pc \in AfterFanOut
         /\ \A h \in HelperIds : AlertsFor(h, c.e) = {}
         /\ c.result = "ok" => emergencies[c.e].status = "active"
         /\ c.result = "error" => failures > 0
         /\ c.result \in {"pending", "ok", "error"}
    /\ (c.result # "pending" /\ c.pc = "findNearbyUsers") =>
         c.result = "error" /\ failures > 0

\* A call that found nobody within the last radius has returned, and its
\* emergency is active
C11_Witness ==
  \E r \in returned :
    /\ r.op = "trigger" /\ r.result = "ok" /\ "nobody" \in r.notes
    /\ "warned" \notin r.notes
    /\ r.radius = MAX_SEARCH_RADIUS
    /\ emergencies[r.e].status = "active"
    /\ helperAlerts = <<>>

\* C15: the step in which a triggerEmergency call's first store write succeeds
\* adds one emergency, with status waiting and the caller as victim, and
\* leaves the emergencies that exist as they are; no other step of a trigger
\* adds an emergency.
C15_TriggerCreatesOneEmergency ==
  [][IF \E i \in DOMAIN calls, j \in DOMAIN calls' :
          /\ calls[i].op = "trigger" /\ calls[i].pc = "addEmergency"
          /\ calls'[j] = [calls[i] EXCEPT !.e = Len(emergencies) + 1,
                                          !.pc = "addChat"]
       THEN /\ Len(emergencies') = Len(emergencies) + 1
            /\ SubSeq(emergencies', 1, Len(emergencies)) = emergencies
            /\ emergencies'[Len(emergencies')].status = "waiting"
            /\ emergencies'[Len(emergencies')].victimId = Victim
       ELSE Len(emergencies') = Len(emergencies)]_vars

\* A second emergency of the victim has been created while the first was
\* waiting or active
C15_Witness ==
  /\ Len(emergencies) = 2
  /\ emergencies[1].status \in {"waiting", "active"}
  /\ emergencies[2].status = "waiting"
  /\ \E i \in DOMAIN calls : calls[i].e = 2 /\ calls[i].pc = "addChat"

\* C16: on a device without a signed-in user no triggerEmergency call creates
\* a document or sets a timer: every call returns at the first check.
C16_NoUserNoDocuments ==
  ~user =>
    /\ emergencies = <<>> /\ chats = <<>> /\ messages = <<>>
    /\ helperAlerts = <<>>
    /\ timers = {} /\ chatExpiryTimeoutRef = 0
    /\ calls = <<>>
    /\ \A r \in returned : r.result = "unauthenticated"

C16_Witness ==
  /\ ~user
  /\ \E r \in returned : r.op = "trigger" /\ r.result = "unauthenticated"

C18_FanOutReachesEveryCandidate ==
  \A c \in TriggerCalls :
    (c.pc \in AfterFanOut \cup {"alert"}) =>
      /\ c.e \in DOMAIN emergencies /\ c.chat \in DOMAIN chats
      /\ chats[c.chat].activeStatus
      /\ c.found # {} => c.found \subseteq chats[c.chat].participants
      /\ c.failed \subseteq c.found
      /\ \A h \in c.found :
           /\ Cardinality(AlertsFor(h, c.e)) \in {0, 1}
           /\ h \in c.failed => AlertsFor(h, c.e) = {}
           /\ (c.pc \in AfterFanOut /\ h \notin c.failed)
                => Cardinality(AlertsFor(h, c.e)) = 1
           /\ \A k \in AlertsFor(h, c.e) :
                /\ helperAlerts[k].status = "pending"
                /\ helperAlerts[k].chatId = c.chat

\* Two helpers were found, the alert write of the first of the loop failed,
\* and the second has its alert
C18_Witness ==
  \E r \in returned :
    /\ r.op = "trigger" /\ r.result = "ok"
    /\ Cardinality(r.found) = 2
    /\ r.failed = {CHOOSE h \in r.found : TRUE}
    /\ \E h \in r.found \ r.failed : Cardinality(AlertsFor(h, r.e)) = 1

\* C19: the emergency of a triggerEmergency call is waiting until the call
\* has made its step 6, and when it is active the participants update has
\* been made and every alert write of the fan-out has been attempted; the
\* call returns with the alerts still pending.
C19_ActiveOnlyAfterFanOut ==
  \A c \in TriggerCalls :
    c.e # 0 =>
      /\ emergencies[c.e].status \in {"waiting", "active"}
      /\ (c.result \in {"pending", "error"}
            /\ c.pc \notin {"addLocationMessage", "setExpiresAt"})
           => emergencies[c.e].status = "waiting"
      /\ (c.result = "ok" \/ c.pc \in {"addLocationMessage", "setExpiresAt"})
           => emergencies[c.e].status = "active"
      /\ emergencies[c.e].status = "active" =>
           /\ c.found # {} => c.found \subseteq chats[c.chat].participants
           /\ \A h \in c.found : h \in c.failed \/ AlertsFor(h, c.e) # {}
      /\ c.result = "ok" =>
           \A k \in DOMAIN helperAlerts :
             helperAlerts[k].emergencyId = c.e
               => helperAlerts[k].status = "pending"

\* A call has returned: its emergency is active and the helper it alerted has
\* not answered
C19_Witness ==
  \E r \in returned :
    /\ r.op = "trigger" /\ r.result = "ok" /\ r.found # {} /\ r.failed = {}
    /\ emergencies[r.e].status = "active"
    /\ \A h \in r.found :
         \E k \in AlertsFor(h, r.e) : helperAlerts[k].status = "pending"

\* The emergencies of the triggerEmergency calls whose first write succeeded
Created == {c.e : c \in {x \in TriggerCalls : x.e # 0}}

\* C24: a triggerEmergency call whose write of the emergency fails returns
\* with the error shown to the user and has no emergency and no chat; every
\* emergency in the store is that of a call whose first write succeeded,
\* every chat, message and HelperAlert belongs to such an emergency, and
\* every expiry timer to a call that ran to its end.
C24_UnreachableStoreCreatesNothing ==
  /\ \A c \in TriggerCalls :
       (c.result # "pending" /\ c.pc = "addEmergency") =>
         c.result = "error" /\ failures > 0 /\ c.e = 0 /\ c.chat = 0
  /\ DOMAIN emergencies = Created
  /\ \A k \in DOMAIN chats : chats[k].emergencyId \in Created
  /\ \A k \in DOMAIN messages : messages[k].chatId \in DOMAIN chats
  /\ \A k \in DOMAIN helperAlerts : helperAlerts[k].emergencyId \in Created
  /\ timers \cup ({chatExpiryTimeoutRef} \ {0})
       \subseteq {c.e : c \in {x \in TriggerCalls : x.result = "ok"}}

\* The first write of the only triggerEmergency call has failed: the call has
\* returned with the error and the store is empty
C24_Witness ==
  /\ \E r \in returned :
       r.op = "trigger" /\ r.pc = "addEmergency" /\ r.result = "error"
  /\ ncalls = 1
  /\ emergencies = <<>> /\ chats = <<>> /\ messages = <<>>
  /\ helperAlerts = <<>> /\ timers = {}

\* The chat of trigger call c is linked: updateDoc(emergencyRef, {chatId})
\* has been made
Linked(c) ==
  c.chat # 0 /\ ~(c.pc = "linkChat" /\ c.result \in {"pending", "error"})

\* C29: every chat names an emergency that exists (it was created first) and
\* no other chat names it, the victim of that emergency is among the chat's
\* participants, an emergency with a chatId is named by the chat it names,
\* and once a triggerEmergency call has written the link its emergency has
\* the chatId of its chat.
C29_EmergencyAndSessionOneToOne ==
  /\ \A c \in DOMAIN chats :
       /\ chats[c].emergencyId \in DOMAIN emergencies
       /\ emergencies[chats[c].emergencyId].victimId \in chats[c].participants
       /\ \A d \in DOMAIN chats :
            chats[d].emergencyId = chats[c].emergencyId => d = c
  /\ \A e \in DOMAIN emergencies :
       emergencies[e].chatId # 0 =>
         /\ emergencies[e].chatId \in DOMAIN chats
         /\ chats[emergencies[e].chatId].emergencyId = e
  /\ \A t \in TriggerCalls :
       Linked(t) => emergencies[t.e].chatId = t.chat /\ chats[t.chat].emergencyId = t.e

\* Two emergencies, each linked to a chat of its own
C29_Witness ==
  /\ Len(emergencies) = 2 /\ Len(chats) = 2
  /\ \A e \in {1, 2} :
       /\ emergencies[e].chatId # 0
       /\ chats[emergencies[e].chatId].emergencyId = e
  /\ emergencies[1].chatId # emergencies[2].chatId

\* C20: a triggerEmergency call that has created its emergency and then met a
\* failure of the scan of the users collection or of a HelperAlert write
\* has, once it has returned, an active emergency with its expiry timer set.
C20_PartialFailureStillActive ==
  \A r \in returned :
    (r.op = "trigger" /\ r.e # 0
       /\ (r.pc = "findNearbyUsers" \/ r.failed # {}))
      => emergencies[r.e].status = "active" /\ r.e \in timers

(***************************************************************************)
(* Properties of resolveEmergency and of the expiry timer                  *)
(***************************************************************************)
\* The calls of handler op that return in this step with result "ok"
ReturnsOk(op) ==
  {r \in returned' \ returned : r.op = op /\ r.result = "ok"}

\* The chats of emergency e in the store after this step
SessionsOf(e) == {c \in DOMAIN chats' : chats'[c].emergencyId = e}

\* C21: when a resolveEmergency call returns without an error, the emergency
\* it resolved is closed, the chat it has written to, if any, is the chat of
\* that emergency, and no chat of that emergency has activeStatus true.
C21_ResolveClosesOwnSession ==
  [][\A r \in ReturnsOk("resolve") :
       /\ emergencies'[r.e].status = "closed"
       /\ r.chat # 0 => r.chat \in SessionsOf(r.e)
       /\ \A c \in SessionsOf(r.e) : ~chats'[c].activeStatus]_vars

\* A resolveEmergency call on emergency e has returned without an error
Resolved(e) ==
  \E r \in returned : r.op = "resolve" /\ r.result = "ok" /\ r.e = e

\* The expiry timer of emergency e fires in this step: its callback starts
ExpiryStarts(e) ==
  e \in timers /\ e \notin timers' /\ Len(calls') = Len(calls) + 1

\* C22: the expiry timer of an emergency does not fire once a
\* resolveEmergency call on that emergency has returned, whatever the
\* interleaving of the resolve with the triggerEmergency call that sets the
\* timer and however many emergencies the device has triggered.
C22_ResolveCancelsExpiry ==
  [][\A e \in DOMAIN emergencies : ExpiryStarts(e) => ~Resolved(e)]_vars

\* C23: when the expiry callback and a resolveEmergency call on the same
\* emergency have both returned, in whatever order their writes were made,
\* the emergency is closed and its chat has activeStatus false; neither
\* returns an error unless a store operation has failed; and the expiry
\* callback starts only on an emergency no resolveEmergency call has
\* finished with.
C23_ExpiryAndResolveCommute ==
  /\ [](\A x \in returned, r \in returned :
          (/\ x.op = "expire" /\ x.result = "ok"
           /\ r.op = "resolve" /\ r.result = "ok" /\ r.e = x.e)
            => /\ emergencies[x.e].status = "closed"
               /\ ~chats[x.chat].activeStatus)
  /\ [](\A r \in returned :
          (r.op \in {"expire", "resolve"} /\ r.result = "error") => failures > 0)
  /\ [][\A e \in DOMAIN emergencies :
          ExpiryStarts(e) => ~Resolved(e)]_vars

(***************************************************************************)
(* Properties of the messages                                              *)
(***************************************************************************)
\* The messages user u has sent in a chat
SentBy(u, chatId) ==
  {k \in DOMAIN messages :
     messages[k].chatId = chatId /\ messages[k].senderId = u}

\* C31: every step leaves the messages that exist as they are and adds one at
\* most, at the end; a send call that returns without an error has added a
\* message of its own sender to its chat in that step, and the message of
\* every send call that has returned is in the store, whatever other sends
\* overlapped with it.
C31_SendsKeepEveryMessage ==
  /\ [][/\ Len(messages') \in {Len(messages), Len(messages) + 1}
         /\ SubSeq(messages', 1, Len(messages)) = messages
         /\ \A r \in ReturnsOk("send") :
              /\ Len(messages') = Len(messages) + 1
              /\ messages'[Len(messages')].senderId = r.client
              /\ messages'[Len(messages')].chatId = r.chat]_vars
  /\ [](\A r \in returned :
          (r.op = "send" /\ r.result = "ok") => SentBy(r.client, r.chat) # {})

\* The victim and a helper have both sent a message in the chat
C31_Witness ==
  \E a \in returned, b \in returned :
    /\ a.op = "send" /\ a.result = "ok" /\ a.client = Victim
    /\ b.op = "send" /\ b.result = "ok" /\ b.client \in HelperIds
    /\ a.chat = b.chat
    /\ SentBy(a.client, a.chat) # {} /\ SentBy(b.client, b.chat) # {}

(***************************************************************************)
(* Properties of the subscriptions                                         *)
(***************************************************************************)
\* The listener of the victim's emergencies runs in this step: the documents
\* of its query have changed
SnapshotDelivered ==
  ActiveEmergencies(emergencies') # ActiveEmergencies(emergencies)

C33_OneOpenEmergencyPerVictim ==
  Cardinality(ActiveEmergencies(emergencies)) <= 1

(***************************************************************************)
(* Properties of the life of an emergency                                  *)
(***************************************************************************)
\* A call of handler op on emergency e is in flight
InFlight(op, e) ==
  \E i \in DOMAIN calls : calls[i].op = op /\ calls[i].e = e

\* C34: every emergency in the store is closed, or its expiry timer is
\* pending on the victim's device, or the triggerEmergency call that created
\* it or the callback of its timer is still running.
C34_OpenEmergencyHasExpiryPending ==
  \A e \in DOMAIN emergencies :
    \/ emergencies[e].status = "closed"
    \/ e \in timers
    \/ InFlight("trigger", e)
    \/ InFlight("expire", e)

Locates ==
  {Done(calls[i], "pending") : i \in {x \in DOMAIN calls : calls[x].op = "locate"}}
    \cup {r \in returned : r.op = "locate"}

\* C36: a call of updateLocation makes its second position request only
\* when the first has timed out, a call whose first request was refused or
\* had no position rejects without a second request, a call that has
\* returned has set isLoadingLocation to false, and no call is left with a
\* promise that will never settle.
C36_UpdateLocationSettles ==
  \A c \in Locates :
    /\ "request2" \in c.notes => "TIMEOUT" \in c.notes
    /\ c.notes \cap {"PERMISSION_DENIED", "POSITION_UNAVAILABLE"} # {}
         => c.result = "rejected" /\ "request2" \notin c.notes
    /\ "GPS failed" \in c.notes => c.result = "rejected"
    /\ c.result # "pending" => "loaded" \in c.notes
    /\ c.pc # "thrown"

\* The same without the last part: what holds of the requests and of the
\* calls that return
C36_RetryOnTimeoutOnly ==
  \A c \in Locates :
    /\ "request2" \in c.notes => "TIMEOUT" \in c.notes
    /\ c.notes \cap {"PERMISSION_DENIED", "POSITION_UNAVAILABLE"} # {}
         => c.result = "rejected" /\ "request2" \notin c.notes
    /\ "GPS failed" \in c.notes => c.result = "rejected"
    /\ c.result # "pending" => "loaded" \in c.notes

(***************************************************************************)
(* Properties of the status of an emergency                                *)
(***************************************************************************)
\* The place of a status in the order waiting, active, closed
StatusRank(status) ==
  CASE status = "waiting" -> 1
    [] status = "active" -> 2
    [] status = "closed" -> 3

\* C37: no step moves the status of an emergency backwards in the order
\* waiting, active, closed; a closed emergency stays closed.
C37_StatusMovesForward ==
  [][\A e \in DOMAIN emergencies :
       StatusRank(emergencies'[e].status) >= StatusRank(emergencies[e].status)]_vars

\* No triggerEmergency, resolveEmergency or expiry callback is in flight
Quiescent ==
  \A i \in DOMAIN calls : calls[i].op \notin {"trigger", "resolve", "expire"}

\* C38: when no trigger, resolve or expiry is in flight, an emergency with
\* a linked session is closed exactly when that session is not active.
C38_ClosedIffSessionInactive ==
  Quiescent =>
    \A e \in DOMAIN emergencies :
      emergencies[e].chatId # 0 =>
        ((emergencies[e].status = "closed")
           <=> ~chats[emergencies[e].chatId].activeStatus)

(***************************************************************************)
(* Properties of the fan-out                                               *)
(***************************************************************************)
\* C39: every helper alert names a session that is linked, both ways, to
\* the emergency the alert names, and a helper who is a participant of that
\* session and is not the victim of the emergency.
C39_AlertedHelpersAreParticipants ==
  \A k \in DOMAIN helperAlerts :
    LET a == helperAlerts[k]
    IN /\ a.emergencyId \in DOMAIN emergencies
       /\ a.chatId \in DOMAIN chats
       /\ emergencies[a.emergencyId].chatId = a.chatId
       /\ chats[a.chatId].emergencyId = a.emergencyId
       /\ a.helperId \in chats[a.chatId].participants
       /\ a.helperId # emergencies[a.emergencyId].victimId

\* Two emergencies have their alerts: the fan-out has run twice
C39_Witness ==
  \E a \in DOMAIN helperAlerts, b \in DOMAIN helperAlerts :
    /\ helperAlerts[a].emergencyId # helperAlerts[b].emergencyId
    /\ helperAlerts[a].helperId = helperAlerts[b].helperId

\* C40: when a triggerEmergency call reports a failure, no emergency it has
\* created is waiting or active; when it reports success, its emergency is
\* active, is linked to a session that is open, and has its expiry timer set.
C40_ReportMatchesStore ==
  [][\A r \in returned' \ returned :
       r.op = "trigger" =>
         /\ r.result = "error" =>
              \/ r.e = 0
              \/ emergencies'[r.e].status \notin {"waiting", "active"}
         /\ r.result = "ok" =>
              /\ emergencies'[r.e].status = "active"
              /\ emergencies'[r.e].chatId = r.chat
              /\ r.chat # 0 /\ chats'[r.chat].activeStatus
              /\ r.e \in timers']_vars

\* The part of it about the calls that report success
C40_SuccessMeansActive ==
  [][\A r \in returned' \ returned :
       (r.op = "trigger" /\ r.result = "ok") =>
         /\ emergencies'[r.e].status = "active"
         /\ emergencies'[r.e].chatId = r.chat
         /\ r.chat # 0 /\ chats'[r.chat].activeStatus
         /\ r.e \in timers']_vars

====
